---- MODULE Spec2Model ----
(***************************************************************************)
(* DragonBot: the root driver DragonBot.search, the principal-variation    *)
(* search _pvs, _quiescence, the heuristic tables and TimeManager, as a    *)
(* state machine.  The chess board (python-chess) is an abstract game      *)
(* graph: a position is a node with its legal moves and the predicates the *)
(* engine asks of it.                                                      *)
(***************************************************************************)
EXTENDS Integers, Sequences, FiniteSets, TLC

\* ------------------------------------------------------------------------
\* Program constants
\* ------------------------------------------------------------------------
INF == 10000000
MATE_SCORE == 1000000
DefaultMaxDepth == 20
DefaultTbProbeLimit == 7
TtSize == 16777216
AgeHorizon == 8
NoClockDepth == 10
PollMask == 2047
BIG_DELTA == 975
AspirationDelta == 50
MateBand == 100
PvLimit == 20
HistoryMax == 10000
HistoryKeys == 50000

\* ------------------------------------------------------------------------
\* Bounds of the model
\* ------------------------------------------------------------------------
MaxNodesCap == 12
MaxDepthOpt == 3
TtCap == 2
MaxAge == 8

\* ------------------------------------------------------------------------
\* Values
\* ------------------------------------------------------------------------
PAWN == 1
KNIGHT == 2
BISHOP == 3
ROOK == 4
QUEEN == 5
KING == 6

None == [from |-> -1, to |-> -1, promo |-> 0]

Abs(x) == IF x < 0 THEN -x ELSE x
Max(a, b) == IF a >= b THEN a ELSE b
Min(a, b) == IF a <= b THEN a ELSE b

\* A legal move of a position, with what the board answers about it.
\*   cap      board.is_capture(m)
\*   victim   piece type on the destination square (0: empty, en passant)
\*   attacker piece type on the origin square
\*   chk      board.gives_check(m)
\*   defended after the move, the destination is attacked by the mover's side
\*   recap    after the move, the destination is attacked by the opponent
\*   dst      the position reached by board.push(m)
M(f, t, pr, cap, vic, att, chk, def, rec, dst) ==
    [from |-> f, to |-> t, promo |-> pr, cap |-> cap, victim |-> vic,
     attacker |-> att, chk |-> chk, defended |-> def, recap |-> rec, dst |-> dst]

\* A position.
\*   key     board._transposition_key()
\*   fen     hash(board.fen()), the last resort of _hash_key
\*   turn    TRUE: white to move
\*   check   board.is_check()
\*   insuff  board.is_insufficient_material()
\*   claim   can_claim_threefold_repetition() or can_claim_fifty_moves()
\*   ev      static evaluation without the mobility term, side to move's view
\*   mob     mobility term, side to move's view
\*   npm     the side to move has a knight, bishop, rook or queen
\*   nullTo  position after board.push(Move.null()) (0: none modelled)
P(key, fen, turn, check, insuff, claim, ev, mob, npm, nullTo, moves) ==
    [key |-> key, fen |-> fen, turn |-> turn, check |-> check, insuff |-> insuff,
     claim |-> claim, ev |-> ev, mob |-> mob, npm |-> npm, nullTo |-> nullTo,
     moves |-> moves]

Quiet(f, t, att, dst) == M(f, t, 0, FALSE, 0, att, FALSE, FALSE, FALSE, dst)

\* Leaves: a dead-drawn position (bare kings) whose king moves lead to
\* another such position.
Sink == 90
Bare(key, turn) ==
    P(key, key + 500, turn, FALSE, TRUE, FALSE, 0, 0, FALSE, 0, <<Quiet(4, 5, KING, Sink)>>)

\* ------------------------------------------------------------------------
\* A middlegame of DeepPlies plies: white has DeepWidth quiet moves at each
\* of its turns and black one fewer, and different move orders meet in the
\* same position; black's first reply is a pawn capture. DeepId(l, j) is the
\* j-th position after l plies and DeepValue its static evaluation from
\* white's side.
\* ------------------------------------------------------------------------
DeepWidth == 3
DeepPlies == 10
DeepRoot == 100
DeepId(l, j) == DeepRoot + 10 * l + j
DeepValue(l, j) == ((5 * l * l + 29 * j + 7 * l * j) % 97) - 48
DeepMove(l, k, dst) ==
    IF l = 1 /\ k = 1
    THEN M(8 + ((3 * l + k) % 40), 16 + ((3 * l + k) % 40), 0, TRUE, PAWN, PAWN,
           FALSE, FALSE, FALSE, dst)
    ELSE Quiet(8 + ((3 * l + k) % 40), 16 + ((3 * l + k) % 40), PAWN, dst)
DeepMoves(l, j) ==
    [k \in 1..(IF l % 2 = 0 THEN DeepWidth ELSE DeepWidth - 1) |->
        DeepMove(l, k, IF l = DeepPlies THEN Sink ELSE DeepId(l + 1, (j + k) % (DeepWidth + 1)))]
DeepPosition(l, j) ==
    P(DeepId(l, j), DeepId(l, j) + 500, l % 2 = 0, FALSE, FALSE, FALSE,
      IF l % 2 = 0 THEN DeepValue(l, j) ELSE -DeepValue(l, j), 0, TRUE, 0, DeepMoves(l, j))
DeepGame ==
    [n \in {DeepId(l, j) : l \in 0..DeepPlies, j \in 0..DeepWidth} |->
        DeepPosition((n - DeepRoot) \div 10, (n - DeepRoot) % 10)]

\* ------------------------------------------------------------------------
\* The positions the model searches.  Squares are 0..63 (a1 = 0, h8 = 63).
\* ------------------------------------------------------------------------
Game ==
    \* --- an opening position with a transposition (e4 e5 Nf3 = Nf3 e5 e4)
       1 :> P(1, 501, TRUE, FALSE, FALSE, FALSE, 20, 4, TRUE, 0,
              << Quiet(12, 28, PAWN, 2),
                 Quiet(6, 21, KNIGHT, 3),
                 M(3, 59, 0, TRUE, QUEEN, QUEEN, TRUE, FALSE, TRUE, 4) >>)
    @@ 2 :> P(2, 502, FALSE, FALSE, FALSE, FALSE, -25, -3, TRUE, 0,
              << Quiet(52, 36, PAWN, 5) >>)
    @@ 3 :> P(3, 503, FALSE, FALSE, FALSE, FALSE, -30, -2, TRUE, 0,
              << Quiet(52, 36, PAWN, 8),
                 Quiet(51, 35, PAWN, 11) >>)
    @@ 4 :> P(4, 504, FALSE, TRUE, FALSE, FALSE, -880, 0, TRUE, 0,
              << M(60, 59, 0, TRUE, QUEEN, KING, FALSE, FALSE, FALSE, 7) >>)
    @@ 5 :> P(5, 505, TRUE, FALSE, FALSE, FALSE, 22, 2, TRUE, 0,
              << Quiet(6, 21, KNIGHT, 9) >>)
    @@ 7 :> P(7, 507, TRUE, FALSE, FALSE, FALSE, 10, 1, TRUE, 0,
              << Quiet(1, 18, KNIGHT, 16) >>)
    @@ 8 :> P(8, 508, TRUE, FALSE, FALSE, FALSE, 28, 3, TRUE, 0,
              << Quiet(12, 28, PAWN, 9),
                 M(21, 36, 0, TRUE, PAWN, KNIGHT, FALSE, FALSE, TRUE, 13) >>)
    @@ 9 :> Bare(9, FALSE)
    @@ 11 :> P(11, 511, TRUE, FALSE, FALSE, FALSE, 35, 2, TRUE, 0,
              << M(5, 33, 0, FALSE, 0, BISHOP, TRUE, FALSE, FALSE, 12) >>)
    @@ 12 :> P(12, 512, FALSE, TRUE, FALSE, FALSE, -40, 0, TRUE, 0, << >>)
    @@ 13 :> P(13, 513, FALSE, FALSE, FALSE, FALSE, -120, -1, TRUE, 0,
              << M(51, 36, 0, TRUE, KNIGHT, PAWN, FALSE, TRUE, FALSE, 14) >>)
    @@ 14 :> Bare(14, TRUE)
    @@ 16 :> Bare(16, FALSE)
    \* --- mate in one (Qxf7#) beside a quiet move
    @@ 20 :> P(20, 520, TRUE, FALSE, FALSE, FALSE, 60, 5, TRUE, 0,
              << Quiet(6, 21, KNIGHT, 21),
                 M(39, 53, 0, TRUE, PAWN, QUEEN, TRUE, TRUE, TRUE, 22) >>)
    @@ 21 :> Bare(21, FALSE)
    @@ 22 :> P(22, 522, FALSE, TRUE, FALSE, FALSE, -90, 0, TRUE, 0, << >>)
    \* --- the side to move is checkmated / stalemated
    @@ 30 :> P(30, 530, TRUE, TRUE, FALSE, FALSE, -300, 0, TRUE, 0, << >>)
    @@ 31 :> P(31, 531, TRUE, FALSE, FALSE, FALSE, -500, 0, FALSE, 0, << >>)
    \* --- a draw can be claimed, and a mate in one is on the board
    @@ 32 :> P(32, 532, TRUE, FALSE, FALSE, TRUE, 60, 5, TRUE, 0,
              << Quiet(6, 21, KNIGHT, 21),
                 M(39, 53, 0, TRUE, PAWN, QUEEN, TRUE, TRUE, TRUE, 22) >>)
    \* --- bare kings at the root
    @@ 33 :> Bare(33, TRUE)
    \* --- mate in two: a check, a forced reply, the mate
    @@ 40 :> P(40, 540, TRUE, FALSE, FALSE, FALSE, 150, 3, TRUE, 0,
              << Quiet(8, 16, PAWN, 44),
                 M(7, 63, 0, FALSE, 0, ROOK, TRUE, FALSE, FALSE, 41) >>)
    @@ 41 :> P(41, 541, FALSE, TRUE, FALSE, FALSE, -160, 0, FALSE, 0,
              << Quiet(62, 55, KING, 42) >>)
    @@ 42 :> P(42, 542, TRUE, FALSE, FALSE, FALSE, 170, 3, TRUE, 0,
              << Quiet(9, 17, PAWN, 44),
                 M(63, 58, 0, FALSE, 0, ROOK, TRUE, FALSE, FALSE, 43) >>)
    @@ 43 :> P(43, 543, FALSE, TRUE, FALSE, FALSE, -200, 0, FALSE, 0, << >>)
    @@ 44 :> Bare(44, FALSE)
    \* --- a move into a claimable draw (51) and a move into a worse position
    \* (52); hash(fen) of 51 and 52 collide, their transposition keys differ
    @@ 50 :> P(50, 550, TRUE, FALSE, FALSE, FALSE, -80, 2, TRUE, 0,
              << Quiet(1, 18, KNIGHT, 51),
                 Quiet(12, 20, PAWN, 52) >>)
    @@ 51 :> P(51, 551, FALSE, FALSE, FALSE, TRUE, 80, 2, TRUE, 0,
              << Quiet(52, 44, PAWN, Sink) >>)
    @@ 52 :> P(52, 551, FALSE, FALSE, FALSE, FALSE, 90, 2, TRUE, 0,
              << Quiet(57, 42, KNIGHT, 53) >>)
    @@ 53 :> P(53, 553, TRUE, FALSE, FALSE, FALSE, -95, 2, TRUE, 0,
              << Quiet(4, 5, KING, Sink) >>)
    \* --- two quiet moves; the first is worth 0 at depth 1 and 49 at depth 2,
    \* one point inside the aspiration window, the second is worth -100
    @@ 60 :> P(60, 560, TRUE, FALSE, FALSE, FALSE, 10, 0, TRUE, 0,
              << Quiet(12, 28, PAWN, 61),
                 Quiet(11, 27, PAWN, 62) >>)
    @@ 61 :> P(61, 561, FALSE, FALSE, FALSE, FALSE, 0, 0, TRUE, 0,
              << Quiet(52, 36, PAWN, 63) >>)
    @@ 62 :> P(62, 562, FALSE, FALSE, FALSE, FALSE, 100, 0, TRUE, 0,
              << Quiet(51, 35, PAWN, 64) >>)
    @@ 63 :> P(63, 563, TRUE, FALSE, FALSE, FALSE, 49, 0, TRUE, 0,
              << Quiet(6, 21, KNIGHT, Sink) >>)
    @@ 64 :> P(64, 564, TRUE, FALSE, FALSE, FALSE, -100, 0, TRUE, 0,
              << Quiet(6, 21, KNIGHT, Sink) >>)
    \* --- a mate in one (70: Qxf7#) beside a check that mates a move later
    \* and a quiet move; 74 is the same game two plies earlier
    @@ 70 :> P(70, 570, TRUE, FALSE, FALSE, FALSE, 60, 0, TRUE, 0,
              << M(7, 63, 0, FALSE, 0, ROOK, TRUE, FALSE, FALSE, 71),
                 M(39, 53, 0, TRUE, PAWN, QUEEN, TRUE, TRUE, TRUE, 72),
                 Quiet(8, 16, PAWN, 73) >>)
    @@ 71 :> P(71, 571, FALSE, TRUE, FALSE, FALSE, -70, 0, TRUE, 0,
              << Quiet(62, 55, KING, 78) >>)
    @@ 72 :> P(72, 572, FALSE, TRUE, FALSE, FALSE, -90, 0, TRUE, 0, << >>)
    @@ 73 :> P(73, 573, FALSE, FALSE, FALSE, FALSE, -50, 0, TRUE, 0,
              << Quiet(52, 44, PAWN, 77) >>)
    @@ 74 :> P(74, 574, TRUE, FALSE, FALSE, FALSE, 20, 0, TRUE, 0,
              << Quiet(12, 28, PAWN, 75),
                 Quiet(11, 27, PAWN, 76) >>)
    @@ 75 :> P(75, 575, FALSE, FALSE, FALSE, FALSE, -30, 0, TRUE, 0,
              << Quiet(57, 42, KNIGHT, 70),
                 Quiet(52, 36, PAWN, 77) >>)
    @@ 76 :> P(76, 576, FALSE, FALSE, FALSE, FALSE, 5, 0, TRUE, 0,
              << Quiet(51, 35, PAWN, 77) >>)
    @@ 77 :> P(77, 577, TRUE, FALSE, FALSE, FALSE, 10, 0, TRUE, 0,
              << Quiet(6, 21, KNIGHT, Sink) >>)
    @@ 78 :> P(78, 578, TRUE, FALSE, FALSE, FALSE, 80, 0, TRUE, 0,
              << M(63, 58, 0, FALSE, 0, ROOK, TRUE, FALSE, FALSE, 79),
                 Quiet(9, 17, PAWN, 77) >>)
    @@ 79 :> P(79, 579, FALSE, TRUE, FALSE, FALSE, -95, 0, TRUE, 0, << >>)
    \* --- a reply (y2, to 310) that a beta cutoff hides from the first five
    \* iterations: 301 is a dead draw, the line from 303 is worth -100 to
    \* white down to four plies, +30 from the fifth and +200 from the seventh
    @@ 300 :> P(300, 800, TRUE, FALSE, FALSE, FALSE, 0, 0, TRUE, 0,
              << Quiet(12, 28, PAWN, 301),
                 Quiet(8, 16, PAWN, 302) >>)
    @@ 301 :> Bare(301, FALSE)
    @@ 302 :> P(302, 802, FALSE, FALSE, FALSE, FALSE, 100, 0, TRUE, 0,
              << Quiet(52, 36, PAWN, 303),
                 Quiet(48, 40, PAWN, 310) >>)
    @@ 303 :> P(303, 803, TRUE, FALSE, FALSE, FALSE, -100, 0, TRUE, 0,
              << Quiet(6, 21, KNIGHT, 304) >>)
    @@ 304 :> P(304, 804, FALSE, FALSE, FALSE, FALSE, 100, 0, TRUE, 0,
              << Quiet(57, 42, KNIGHT, 305) >>)
    @@ 305 :> P(305, 805, TRUE, FALSE, FALSE, FALSE, -100, 0, TRUE, 0,
              << Quiet(1, 18, KNIGHT, 306) >>)
    @@ 306 :> P(306, 806, FALSE, FALSE, FALSE, FALSE, 100, 0, TRUE, 0,
              << Quiet(62, 45, KNIGHT, 307) >>)
    @@ 307 :> P(307, 807, TRUE, FALSE, FALSE, FALSE, 30, 0, TRUE, 0,
              << Quiet(5, 26, BISHOP, 308) >>)
    @@ 308 :> P(308, 808, FALSE, FALSE, FALSE, FALSE, -30, 0, TRUE, 0,
              << Quiet(61, 34, BISHOP, 309) >>)
    @@ 309 :> P(309, 809, TRUE, FALSE, FALSE, FALSE, 200, 0, TRUE, 0,
              << Quiet(3, 12, QUEEN, Sink) >>)
    @@ 310 :> P(310, 810, TRUE, FALSE, FALSE, FALSE, 80, 0, TRUE, 0,
              << Quiet(6, 21, KNIGHT, 311) >>)
    @@ 311 :> P(311, 811, FALSE, FALSE, FALSE, FALSE, -80, 0, TRUE, 0,
              << Quiet(57, 42, KNIGHT, 312) >>)
    @@ 312 :> P(312, 812, TRUE, FALSE, FALSE, FALSE, 80, 0, TRUE, 0,
              << Quiet(1, 18, KNIGHT, 313) >>)
    @@ 313 :> P(313, 813, FALSE, FALSE, FALSE, FALSE, -80, 0, TRUE, 0,
              << Quiet(62, 45, KNIGHT, 314) >>)
    @@ 314 :> P(314, 814, TRUE, FALSE, FALSE, FALSE, 80, 0, TRUE, 0,
              << Quiet(5, 26, BISHOP, 315) >>)
    @@ 315 :> P(315, 815, FALSE, FALSE, FALSE, FALSE, -80, 0, TRUE, 0,
              << Quiet(61, 34, BISHOP, 316) >>)
    @@ 316 :> P(316, 816, TRUE, FALSE, FALSE, FALSE, 80, 0, TRUE, 0,
              << Quiet(3, 12, QUEEN, Sink) >>)
    \* --- a game in which black, three plies below the root, can return to
    \* the root position (Na3 Nh6 Nb1 Ng8): Nf3 and the line with Na3 are
    \* level, d4 wins forty centipawns
    @@ 400 :> P(400, 900, TRUE, FALSE, FALSE, FALSE, 0, 0, TRUE, 0,
              << Quiet(6, 21, KNIGHT, 401),
                 Quiet(11, 27, PAWN, 402),
                 Quiet(1, 16, KNIGHT, 450) >>)
    @@ 401 :> P(401, 901, FALSE, FALSE, FALSE, FALSE, 0, 0, TRUE, 0,
              << Quiet(52, 36, PAWN, 411) >>)
    @@ 411 :> P(411, 911, TRUE, FALSE, FALSE, FALSE, 0, 0, TRUE, 0,
              << Quiet(5, 26, BISHOP, 412) >>)
    @@ 412 :> P(412, 912, FALSE, FALSE, FALSE, FALSE, 0, 0, TRUE, 0,
              << Quiet(61, 34, BISHOP, 413) >>)
    @@ 413 :> P(413, 913, TRUE, FALSE, FALSE, FALSE, 0, 0, TRUE, 0,
              << Quiet(12, 20, PAWN, 414) >>)
    @@ 414 :> P(414, 914, FALSE, FALSE, FALSE, FALSE, 0, 0, TRUE, 0,
              << Quiet(51, 43, PAWN, Sink) >>)
    @@ 402 :> P(402, 902, FALSE, FALSE, FALSE, FALSE, -40, 0, TRUE, 0,
              << Quiet(52, 44, PAWN, 460) >>)
    @@ 460 :> P(460, 960, TRUE, FALSE, FALSE, FALSE, 40, 0, TRUE, 0,
              << Quiet(12, 28, PAWN, 461) >>)
    @@ 461 :> P(461, 961, FALSE, FALSE, FALSE, FALSE, -40, 0, TRUE, 0,
              << Quiet(51, 43, PAWN, Sink) >>)
    @@ 450 :> P(450, 950, FALSE, FALSE, FALSE, FALSE, 0, 0, TRUE, 0,
              << Quiet(62, 47, KNIGHT, 451) >>)
    @@ 451 :> P(451, 951, TRUE, FALSE, FALSE, FALSE, 0, 0, TRUE, 0,
              << Quiet(16, 1, KNIGHT, 404) >>)
    @@ 404 :> P(404, 904, FALSE, FALSE, FALSE, FALSE, 0, 0, TRUE, 0,
              << Quiet(47, 62, KNIGHT, 400),
                 Quiet(60, 59, KING, 452) >>)
    @@ 452 :> P(452, 952, TRUE, FALSE, FALSE, FALSE, 0, 0, TRUE, 0,
              << Quiet(8, 16, PAWN, 453) >>)
    @@ 453 :> P(453, 953, FALSE, FALSE, FALSE, FALSE, 0, 0, TRUE, 0,
              << Quiet(49, 41, PAWN, Sink) >>)
    @@ Sink :> Bare(Sink, TRUE)
    \* --- the middlegame of DeepPlies plies
    @@ DeepGame

NodeIds == DOMAIN Game

\* the root of the game with the hidden reply
StopRoot == 300

\* the root of the game that returns to its root position
PvRoot == 400

\* The position handed to search: the number of moves already on
\* board.move_stack, the last of them, and the piece counts that
\* TimeManager reads from the board.
RootInfo ==
       1 :> [base |-> 0, prev |-> None, pieces |-> 32, queens |-> 2, rooks |-> 4, pawns |-> 16, central |-> 2]
    @@ 3 :> [base |-> 1, prev |-> [from |-> 6, to |-> 21, promo |-> 0], pieces |-> 32, queens |-> 2, rooks |-> 4, pawns |-> 16, central |-> 3]
    @@ 20 :> [base |-> 6, prev |-> [from |-> 62, to |-> 45, promo |-> 0], pieces |-> 32, queens |-> 2, rooks |-> 4, pawns |-> 16, central |-> 4]
    @@ 30 :> [base |-> 24, prev |-> [from |-> 59, to |-> 3, promo |-> 0], pieces |-> 20, queens |-> 1, rooks |-> 2, pawns |-> 9, central |-> 3]
    @@ 31 :> [base |-> 70, prev |-> [from |-> 45, to |-> 46, promo |-> 0], pieces |-> 4, queens |-> 1, rooks |-> 0, pawns |-> 1, central |-> 1]
    @@ 32 :> [base |-> 110, prev |-> [from |-> 62, to |-> 45, promo |-> 0], pieces |-> 32, queens |-> 2, rooks |-> 4, pawns |-> 16, central |-> 4]
    @@ 33 :> [base |-> 80, prev |-> [from |-> 60, to |-> 59, promo |-> 0], pieces |-> 2, queens |-> 0, rooks |-> 0, pawns |-> 0, central |-> 0]
    @@ 40 :> [base |-> 44, prev |-> [from |-> 61, to |-> 62, promo |-> 0], pieces |-> 7, queens |-> 0, rooks |-> 1, pawns |-> 4, central |-> 0]
    @@ 50 :> [base |-> 30, prev |-> [from |-> 50, to |-> 42, promo |-> 0], pieces |-> 22, queens |-> 2, rooks |-> 4, pawns |-> 10, central |-> 2]
    @@ 60 :> [base |-> 0, prev |-> None, pieces |-> 32, queens |-> 2, rooks |-> 4, pawns |-> 16, central |-> 2]
    @@ StopRoot :> [base |-> 2, prev |-> [from |-> 50, to |-> 42, promo |-> 0], pieces |-> 32, queens |-> 2, rooks |-> 4, pawns |-> 16, central |-> 2]
    @@ PvRoot :> [base |-> 0, prev |-> None, pieces |-> 32, queens |-> 2, rooks |-> 4, pawns |-> 16, central |-> 0]
    @@ DeepRoot :> [base |-> 30, prev |-> [from |-> 50, to |-> 42, promo |-> 0], pieces |-> 28, queens |-> 2, rooks |-> 4, pawns |-> 14, central |-> 2]

\* the roots that every configuration is searched from
Roots == DOMAIN RootInfo \ {DeepRoot, StopRoot, PvRoot}

\* ------------------------------------------------------------------------
\* The board: the current position, the moves pushed since the search was
\* entered, and what was on the move stack before.
\* ------------------------------------------------------------------------
MoveOf(m) == [from |-> m.from, to |-> m.to, promo |-> m.promo]
NullMove == [from |-> 0, to |-> 0, promo |-> 0]

BoardAt(root) ==
    [node |-> root, stack |-> << >>, base |-> RootInfo[root].base, prev |-> RootInfo[root].prev]

Push(b, m) ==
    [b EXCEPT !.stack = Append(@, [node |-> b.node, mv |-> MoveOf(m)]), !.node = m.dst]

PushNull(b) ==
    [b EXCEPT !.stack = Append(@, [node |-> b.node, mv |-> NullMove]),
              !.node = Game[b.node].nullTo]

Pop(b) ==
    [b EXCEPT !.stack = SubSeq(@, 1, Len(@) - 1), !.node = b.stack[Len(b.stack)].node]

StackLen(b) == b.base + Len(b.stack)
Peek(b) == IF Len(b.stack) > 0 THEN b.stack[Len(b.stack)].mv ELSE b.prev

LegalMoves(b) == Game[b.node].moves
IsLegal(b, mv) == \E i \in 1..Len(LegalMoves(b)) : MoveOf(LegalMoves(b)[i]) = mv
IsCheck(b) == Game[b.node].check
IsCheckmate(b) == Game[b.node].check /\ Len(LegalMoves(b)) = 0
IsStalemate(b) == ~Game[b.node].check /\ Len(LegalMoves(b)) = 0
IsInsufficientMaterial(b) == Game[b.node].insuff
CanClaimDraw(b) == Game[b.node].claim
Turn(b) == Game[b.node].turn

\* _hash_key: board._transposition_key(), and hash(board.fen()) when the
\* board offers no transposition key.
HashKey(b, mode) ==
    IF mode = "transposition_key" THEN Game[b.node].key ELSE Game[b.node].fen

_piece_value(pt) ==
    CASE pt = PAWN -> 100
      [] pt = KNIGHT -> 320
      [] pt = BISHOP -> 330
      [] pt = ROOK -> 500
      [] pt = QUEEN -> 900
      [] pt = KING -> 0

_has_non_pawn_material(b) == Game[b.node].npm

\* _evaluate: the terminal short-circuits, then the static terms; the
\* mobility term is added only with a budget of at least half a second.
\* Times are in centiseconds.
_evaluate(b, time_budget) ==
    IF IsCheckmate(b) THEN -MATE_SCORE + StackLen(b)
    ELSE IF IsStalemate(b) \/ IsInsufficientMaterial(b) THEN 0
    ELSE Game[b.node].ev + (IF time_budget >= 50 THEN Game[b.node].mob ELSE 0)

\* ------------------------------------------------------------------------
\* Python dicts: functions with a growing domain.
\* ------------------------------------------------------------------------
EmptyDict == << >>
Get(d, k, default) == IF k \in DOMAIN d THEN d[k] ELSE default
Put(d, k, v) == [x \in (DOMAIN d) \cup {k} |-> IF x = k THEN v ELSE d[x]]
Truthy(mv) == mv /= None /\ mv /= NullMove

\* ------------------------------------------------------------------------
\* _see: one-ply static exchange.  Returns the gain and the board it leaves.
\* ------------------------------------------------------------------------
_see(b, m) ==
    IF ~m.cap THEN [gain |-> 0, board |-> b]
    ELSE IF m.victim = 0 THEN [gain |-> 0, board |-> b]
    ELSE LET pushed == Push(b, m)
             is_attacked == m.defended
             popped == Pop(pushed)
         IN  [gain |-> _piece_value(m.victim)
                        - (IF is_attacked THEN _piece_value(m.attacker) ELSE 0),
              board |-> popped]

\* abs(file - 3.5) + abs(rank - 3.5), doubled to stay in the integers
CenterDistance2(sq) == Abs(2 * (sq % 8) - 7) + Abs(2 * (sq \div 8) - 7)

\* _ordered_moves.score
MoveScore(b, m, tt_move, killers, counter_move, history) ==
    IF Truthy(tt_move) /\ MoveOf(m) = tt_move THEN 10000000
    ELSE
      LET capture == IF m.cap /\ m.victim /= 0
                     THEN _piece_value(m.victim) * 100 - _piece_value(m.attacker) + 100000
                          + (IF _see(b, m).gain > 0 THEN _see(b, m).gain ELSE 0)
                     ELSE 0
          promotion == IF m.promo = QUEEN THEN 900000
                       ELSE IF m.promo /= 0 THEN 300000 ELSE 0
          check == IF m.chk THEN 50000 ELSE 0
          rank == m.to \div 8
          pawn == IF m.attacker = PAWN
                  THEN IF Turn(b) /\ rank >= 5 THEN (rank - 4) * 10000
                       ELSE IF ~Turn(b) /\ rank <= 2 THEN (3 - rank) * 10000
                       ELSE 0
                  ELSE 0
          center == IF CenterDistance2(m.to) < CenterDistance2(m.from)
                    THEN (CenterDistance2(m.from) - CenterDistance2(m.to)) * 500
                    ELSE 0
          killer == IF \E i \in 1..Len(killers) : killers[i] = MoveOf(m) THEN 80000
                    ELSE IF Truthy(counter_move) /\ MoveOf(m) = counter_move THEN 70000
                    ELSE 0
          hist == Get(history, <<Turn(b), m.from, m.to>>, 0)
      IN  capture + promotion + check + pawn + center + killer + hist

\* list.sort(key=..., reverse=True): descending, equal keys keep their order
RECURSIVE SortDesc(_, _)
SortDesc(ms, sc) ==
    IF Len(ms) = 0 THEN << >>
    ELSE LET best == CHOOSE i \in 1..Len(ms) :
                       /\ \A j \in 1..Len(ms) : sc[j] <= sc[i]
                       /\ \A j \in 1..(i - 1) : sc[j] < sc[i]
             drop(q) == SubSeq(q, 1, best - 1) \o SubSeq(q, best + 1, Len(q))
         IN  <<ms[best]>> \o SortDesc(drop(ms), drop(sc))

\* the board after the _see calls made while scoring
RECURSIVE SeeAll(_, _)
SeeAll(b, ms) ==
    IF Len(ms) = 0 THEN b ELSE SeeAll(_see(b, Head(ms)).board, Tail(ms))

_ordered_moves(b, tt_move, ply, killer_moves, counter_moves, history) ==
    LET moves == LegalMoves(b)
        killers == Get(killer_moves, ply, << >>)
        prev_move == IF StackLen(b) > 0 THEN Peek(b) ELSE None
        counter_move == IF Truthy(prev_move)
                        THEN Get(counter_moves, <<prev_move.from, prev_move.to>>, None)
                        ELSE None
        sc == [i \in 1..Len(moves) |->
                 MoveScore(b, moves[i], tt_move, killers, counter_move, history)]
        scored == SelectSeq(moves, LAMBDA m : ~(Truthy(tt_move) /\ MoveOf(m) = tt_move))
    IN  [moves |-> SortDesc(moves, sc), board |-> SeeAll(b, scored)]

\* _ordered_captures
CaptureScore(m) ==
    (IF m.cap /\ m.victim /= 0
     THEN _piece_value(m.victim) * 10 - _piece_value(m.attacker) ELSE 0)
    + (IF m.promo = QUEEN THEN 9000 ELSE 0)

_ordered_captures(b) ==
    LET caps == SelectSeq(LegalMoves(b), LAMBDA m : m.cap \/ m.promo = QUEEN)
        sc == [i \in 1..Len(caps) |-> CaptureScore(caps[i])]
    IN  SortDesc(caps, sc)

\* ------------------------------------------------------------------------
\* Heuristic tables
\* ------------------------------------------------------------------------
TTEntry(depth, score, flag, best_move, age) ==
    [depth |-> depth, score |-> score, flag |-> flag, best_move |-> best_move, age |-> age]

\* _store_tt replacing an entry only when it is both deeper and newer
_store_tt_deeper_and_newer(tt, tt_size, key, entry, age, coin) ==
    IF key \in DOMAIN tt
    THEN IF entry.depth >= tt[key].depth /\ entry.age >= tt[key].age
         THEN Put(tt, key, entry)
         ELSE tt
    ELSE IF Cardinality(DOMAIN tt) >= tt_size /\ coin
         THEN LET old_age == age - AgeHorizon
                  kept == {k \in DOMAIN tt : tt[k].age > old_age}
              IN  Put([k \in kept |-> tt[k]], key, entry)
         ELSE Put(tt, key, entry)

\* _store_tt; coin is the outcome of random.random() < 0.05
_store_tt(tt, tt_size, key, entry, age, coin) ==
    IF key \in DOMAIN tt
    THEN IF entry.depth >= tt[key].depth \/ entry.age >= tt[key].age
         THEN Put(tt, key, entry)
         ELSE tt
    ELSE IF Cardinality(DOMAIN tt) >= tt_size /\ coin
         THEN LET old_age == age - AgeHorizon
                  kept == {k \in DOMAIN tt : tt[k].age > old_age}
              IN  Put([k \in kept |-> tt[k]], key, entry)
         ELSE Put(tt, key, entry)

\* _update_history without the cap of line 555
_update_history_uncapped(history, b, move, depth) ==
    Put(history, <<Turn(b), move.from, move.to>>,
        Get(history, <<Turn(b), move.from, move.to>>, 0) + depth * depth)

\* _update_history
_update_history(history, b, move, depth) ==
    LET key == <<Turn(b), move.from, move.to>>
        bonus == depth * depth
        h1 == Put(history, key, Min(HistoryMax, Get(history, key, 0) + bonus))
    IN  IF Cardinality(DOMAIN h1) > HistoryKeys
        THEN LET kept == {k \in DOMAIN h1 : h1[k] \div 2 >= 10}
             IN  [k \in kept |-> h1[k] \div 2]
        ELSE h1

\* _update_killers
_update_killers(killer_moves, ply, move) ==
    LET killers == Get(killer_moves, ply, << >>)
    IN  IF \E i \in 1..Len(killers) : killers[i] = move
        THEN Put(killer_moves, ply, killers)
        ELSE LET ins == <<move>> \o killers
             IN  Put(killer_moves, ply, IF Len(ins) > 2 THEN SubSeq(ins, 1, Len(ins) - 1) ELSE ins)

\* _time_up without the node test of lines 599-601
_time_up_no_node_test(stop, max_nodes, nodes, late) ==
    IF stop THEN [ret |-> TRUE, stop |-> TRUE]
    ELSE IF nodes % (PollMask + 1) = 0 /\ late THEN [ret |-> TRUE, stop |-> TRUE]
    ELSE [ret |-> FALSE, stop |-> FALSE]

\* _time_up; late is the reading time.perf_counter() >= self.time_deadline.
\* max_nodes = 0 stands for None.
_time_up(stop, max_nodes, nodes, late) ==
    IF stop THEN [ret |-> TRUE, stop |-> TRUE]
    ELSE IF max_nodes /= 0 /\ nodes >= max_nodes THEN [ret |-> TRUE, stop |-> TRUE]
    ELSE IF nodes % (PollMask + 1) = 0 /\ late THEN [ret |-> TRUE, stop |-> TRUE]
    ELSE [ret |-> FALSE, stop |-> FALSE]

\* board.push of a move value: python-chess applies it without checking
\* it; a move that is not legal leaves the game graph.
PushMove(b, mv) ==
    IF IsLegal(b, mv)
    THEN Push(b, CHOOSE x \in {LegalMoves(b)[i] : i \in 1..Len(LegalMoves(b))} : MoveOf(x) = mv)
    ELSE [b EXCEPT !.stack = Append(@, [node |-> b.node, mv |-> mv]), !.node = Sink]

\* _extract_pv without the test of line 588
PvMoveLegalNoCheck(b, move) == TRUE

\* the test "move not in board.legal_moves" of _extract_pv, line 588
PvMoveLegal(b, move) == IsLegal(b, move)

\* _extract_pv: the walk along pv_table, then one pop per move appended.
RECURSIVE PvWalk(_, _, _, _, _, _)
PvWalk(b, pv_table, mode, pv, seen, n) ==
    IF n = 0 THEN [pv |-> pv, board |-> b]
    ELSE LET key == HashKey(b, mode)
         IN  IF key \in seen \/ key \notin DOMAIN pv_table THEN [pv |-> pv, board |-> b]
             ELSE LET move == pv_table[key]
                  IN  IF ~PvMoveLegal(b, move) THEN [pv |-> pv, board |-> b]
                      ELSE PvWalk(PushMove(b, move), pv_table, mode, Append(pv, move),
                                  seen \cup {key}, n - 1)

RECURSIVE PopN(_, _)
PopN(b, n) == IF n = 0 THEN b ELSE PopN(Pop(b), n - 1)

\* _extract_pv without the loop of pops at lines 592-593
_extract_pv_unpopped(b, pv_table, mode) ==
    LET walk == PvWalk(b, pv_table, mode, << >>, {}, PvLimit)
    IN  [pv |-> walk.pv, board |-> walk.board]

_extract_pv(b, pv_table, mode) ==
    LET walk == PvWalk(b, pv_table, mode, << >>, {}, PvLimit)
    IN  [pv |-> walk.pv, board |-> PopN(walk.board, Len(walk.pv))]

\* ------------------------------------------------------------------------
\* TimeManager.  Times are integers in centiseconds; a clock that is None
\* is Absent.  A limit is [none, white_clock, black_clock, white_inc,
\* black_inc, time]; none = TRUE is a time_limit that is None.
\* ------------------------------------------------------------------------
Absent == -1

Limit(wc, bc, wi, bi, t) ==
    [none |-> FALSE, white_clock |-> wc, black_clock |-> bc, white_inc |-> wi,
     black_inc |-> bi, time |-> t]
NoLimit == [none |-> TRUE, white_clock |-> Absent, black_clock |-> Absent,
            white_inc |-> Absent, black_inc |-> Absent, time |-> Absent]

\* evaluate_position_complexity, in tenths
evaluate_position_complexity(b, info) ==
    LET is_cap(m) == m.cap
        is_chk(m) == m.chk
        is_promo(m) == m.promo /= 0
    IN  Len(LegalMoves(b)) * 5
        + Len(SelectSeq(LegalMoves(b), is_cap)) * 15
        + (IF IsCheck(b) THEN 80 ELSE 0)
        + Len(SelectSeq(LegalMoves(b), is_chk)) * 10
        + Len(SelectSeq(LegalMoves(b), is_promo)) * 20
        + info.central * 3
        + info.queens * 20 + info.rooks * 10
        + (IF info.pawns < 8 THEN (8 - info.pawns) * 5 ELSE 0)

calculate_game_phase(b, info) ==
    IF StackLen(b) < 20 THEN "opening"
    ELSE IF info.pieces <= 12 \/ (info.queens = 0 /\ info.rooks <= 2) THEN "endgame"
    ELSE "middlegame"

TimeResult(exc, t, d) == [exc |-> exc, time |-> t, depth |-> d]

\* lines 86-94: the time factor (in thousandths) and the base depth of a phase
PhaseTimeFactor(game_phase) ==
    IF game_phase = "opening" THEN 50 ELSE IF game_phase = "middlegame" THEN 100 ELSE 120

PhaseBaseDepth(game_phase) ==
    IF game_phase = "opening" THEN 7 ELSE IF game_phase = "middlegame" THEN 9 ELSE 6

\* lines 96-97: complexity / 30 capped at 2, in thousandths
ComplexityNormalized(complexity) == Min((complexity * 1000) \div 300, 2000)

\* lines 99-118: the share of the clock given to this move
AllocatedTime(remaining_time, increment, time_factor, normalized, expected_remaining_moves) ==
    LET complexity_normalized == normalized
        adjusted_time_factor == (time_factor * (1000 + complexity_normalized)) \div 1000
        divisor == remaining_time + increment * expected_remaining_moves
        share == (remaining_time * (1000 + adjusted_time_factor))
                   \div (expected_remaining_moves * 1000)
        raw == (share * remaining_time) \div divisor + (increment * 8) \div 10
        cap_percentage == IF remaining_time > 30000 THEN 40
                          ELSE IF remaining_time > 12000 THEN 35
                          ELSE IF remaining_time > 3000 THEN 30 ELSE 25
    IN  Max(Min(raw, (remaining_time * cap_percentage) \div 100), 5)

\* lines 120-133: the depth the allocated time buys, capped by max_depth
TargetDepth(allocated_time, base_depth, complexity_normalized, max_depth) ==
    LET depth_from_time == IF allocated_time > 1000 THEN base_depth + 8
                           ELSE IF allocated_time > 500 THEN base_depth + 6
                           ELSE IF allocated_time > 200 THEN base_depth + 5
                           ELSE IF allocated_time > 100 THEN base_depth + 4
                           ELSE IF allocated_time > 50 THEN base_depth + 3
                           ELSE base_depth
        complexity_depth_bonus == (complexity_normalized * 3) \div 1000
    IN  Min(depth_from_time + complexity_depth_bonus, max_depth)

\* line 134: the pair returned
TimeAndDepth(allocated_time, base_depth, complexity_normalized, max_depth) ==
    TimeResult("none", allocated_time,
               TargetDepth(allocated_time, base_depth, complexity_normalized, max_depth))

\* lines 84-134 once the clock and the increment are read; the division of
\* line 103 raises when its divisor is 0
TimeFromClock(b, info, remaining_time, increment, expected_remaining_moves, max_depth) ==
    IF remaining_time + increment * expected_remaining_moves = 0
    THEN TimeResult("ZeroDivisionError", 0, 0)
    ELSE TimeAndDepth(
             AllocatedTime(remaining_time, increment,
                           PhaseTimeFactor(calculate_game_phase(b, info)),
                           ComplexityNormalized(evaluate_position_complexity(b, info)),
                           expected_remaining_moves),
             PhaseBaseDepth(calculate_game_phase(b, info)),
             ComplexityNormalized(evaluate_position_complexity(b, info)),
             max_depth)

\* "time_limit.white_inc or 0.0"
IncOf(inc) == IF inc = Absent THEN 0 ELSE inc

\* calculate_time_allocation; exc names the exception that ends the call:
\* float(None) at line 76 is a TypeError
calculate_time_allocation(b, info, time_limit, max_depth) ==
    IF time_limit.none THEN TimeResult("none", 100, NoClockDepth)
    ELSE IF time_limit.white_clock /= Absent
    THEN IF Turn(b)
         THEN TimeFromClock(b, info, time_limit.white_clock, IncOf(time_limit.white_inc),
                            Max(20, 60 - StackLen(b)), max_depth)
         ELSE IF time_limit.black_clock = Absent THEN TimeResult("TypeError", 0, 0)
         ELSE TimeFromClock(b, info, time_limit.black_clock, IncOf(time_limit.black_inc),
                            Max(20, 60 - StackLen(b)), max_depth)
    ELSE IF time_limit.time /= Absent
    THEN TimeFromClock(b, info, time_limit.time, 0, Max(20, 60 - StackLen(b)), max_depth)
    ELSE TimeResult("none", 100, NoClockDepth)

\* ------------------------------------------------------------------------
\* State
\* ------------------------------------------------------------------------
VARIABLES
    self,       \* the DragonBot instance: options, tables, nodes, stop, time_budget
    board,      \* the chess.Board handed to search
    pc,         \* where DragonBot.search stands
    frames,     \* the activations of _pvs and _quiescence, innermost last
    ret,        \* the value returned by the activation that ended last
    loc,        \* the locals of DragonBot.search
    inp,        \* the arguments of the call: root, time_limit, root_moves
    result,     \* the PlayResult returned, or the exception raised
    env,        \* the board library's key (hash_mode) and the wall clock (late)
    probes,     \* the collaborators consulted by this call, in order
    completed,  \* best_move, best_score, pv after the last iteration that ran to
                \* completion; cut: the stop flag has cut the running iteration short
    prior       \* the move returned by the search call before this one, and
                \* whether it was the random choice of line 224

vars == <<self, board, pc, frames, ret, loc, inp, result, env, probes, completed, prior>>

NoResult == [kind |-> "none", move |-> None, depth |-> 0, nodes |-> 0, pv |-> << >>,
             score |-> 0, exc |-> "none"]
NoRet == [score |-> 0, move |-> None]
NoLoc ==
    [best_move |-> None, best_score |-> 0, pv |-> << >>, last_depth |-> 0,
     allowed_root |-> [list |-> FALSE, set |-> {}], depth |-> 0, alpha |-> 0, beta |-> 0,
     score |-> 0, move |-> None, adaptive_max_depth |-> 0, stopped_reason |-> "none"]
NoInp == [root |-> 0, time_limit |-> NoLimit, root_moves |-> [list |-> FALSE, moves |-> << >>]]
NoBoard == [node |-> 0, stack |-> << >>, base |-> 0, prev |-> None]
NoCompleted == [valid |-> FALSE, move |-> None, score |-> 0, pv |-> << >>, depth |-> 0,
                cut |-> FALSE]
NoPrior == [called |-> FALSE, move |-> None, random |-> FALSE]

\* DragonBot.__init__, with self.tt_size as a parameter
DragonBot(tt_size) ==
    [max_depth |-> DefaultMaxDepth, max_nodes |-> 0,
     tb_probe_limit |-> DefaultTbProbeLimit, use_book |-> FALSE,
     book_paths |-> FALSE, tb |-> FALSE, tt_size |-> tt_size,
     tt |-> EmptyDict, age |-> 0, pv_table |-> EmptyDict,
     killer_moves |-> EmptyDict, history_heuristic |-> EmptyDict,
     counter_moves |-> EmptyDict, nodes |-> 0, stop |-> FALSE, time_budget |-> 0]

Init ==
    /\ self = DragonBot(TtSize)
    /\ board = NoBoard
    /\ pc = "idle"
    /\ frames = << >>
    /\ ret = NoRet
    /\ loc = NoLoc
    /\ inp = NoInp
    /\ result = NoResult
    /\ env \in {[hash_mode |-> h, late |-> FALSE] : h \in {"transposition_key", "fen_hash"}}
    /\ probes = << >>
    /\ completed = NoCompleted
    /\ prior = NoPrior

\* ------------------------------------------------------------------------
\* notify("configure", options): an option that is not supplied is Unset
\* ------------------------------------------------------------------------
Unset == -99

Options(depth, nodes, syzygy, tblimit, usebook, book) ==
    [Depth |-> depth, Nodes |-> nodes, SyzygyPath |-> syzygy,
     TablebaseProbeLimit |-> tblimit, UseBook |-> usebook, Book |-> book]

\* _configure; UseBook is 1 (True), 0 (False) or Unset; Book and SyzygyPath
\* are 1 (a path) or Unset
_configure(me, options) ==
    [me EXCEPT
       !.max_depth = IF options.Depth /= Unset /\ options.Depth > 0 THEN options.Depth ELSE @,
       !.max_nodes = IF options.Nodes /= Unset /\ options.Nodes > 0 THEN options.Nodes ELSE @,
       !.tb = IF options.SyzygyPath /= Unset THEN TRUE ELSE @,
       !.tb_probe_limit = IF options.TablebaseProbeLimit /= Unset
                             /\ 3 <= options.TablebaseProbeLimit
                             /\ options.TablebaseProbeLimit <= 7
                          THEN options.TablebaseProbeLimit ELSE @,
       !.use_book = IF options.UseBook /= Unset THEN options.UseBook = 1 ELSE @,
       !.book_paths = IF options.Book /= Unset THEN TRUE ELSE @]

\* ------------------------------------------------------------------------
\* Inputs
\* ------------------------------------------------------------------------
ConfigOptions ==
    {Options(d, Unset, Unset, Unset, Unset, Unset) : d \in 0..MaxDepthOpt}
    \cup {Options(Unset, n, Unset, Unset, Unset, Unset) : n \in 1..MaxNodesCap}
    \cup {Options(Unset, Unset, 1, 5, Unset, Unset),
          Options(Unset, Unset, Unset, Unset, 1, 1),
          Options(Unset, Unset, 1, Unset, 1, 1)}

NoClock == Limit(Absent, Absent, Absent, Absent, Absent)
ClockLimits ==
    {Limit(6000, 6000, 0, 0, Absent),
     Limit(0, 0, 0, 0, Absent),
     Limit(6000, Absent, 0, Absent, Absent),
     Limit(Absent, Absent, Absent, Absent, 100)}

NoList == [list |-> FALSE, moves |-> << >>]
List(ms) == [list |-> TRUE, moves |-> ms]
Bogus == [from |-> 0, to |-> 56, promo |-> 0]
RootMoveLists(root) ==
    LET lm == Game[root].moves
    IN  {List(<<Bogus>>)}
        \cup {List(<<MoveOf(lm[i])>>) : i \in 1..Len(lm)}
        \cup {List(<<MoveOf(lm[i]), Bogus, MoveOf(lm[j])>>) : i, j \in 1..Len(lm)}

SearchInputs ==
    {[root |-> r, time_limit |-> l, root_moves |-> NoList] : r \in Roots, l \in {NoClock, NoLimit}}
    \cup {[root |-> r, time_limit |-> l, root_moves |-> NoList] : r \in {3, 20}, l \in ClockLimits}
    \cup UNION {{[root |-> r, time_limit |-> NoClock, root_moves |-> rm] :
                     rm \in RootMoveLists(r)} : r \in {1, 20}}

\* what a collaborator may answer on a position: no move, or a legal move
Answers(b) == {None} \cup {MoveOf(LegalMoves(b)[i]) : i \in 1..Len(LegalMoves(b))}

Running == pc \notin {"idle", "ready", "done", "raised"}

\* ------------------------------------------------------------------------
\* Actions: the host
\* ------------------------------------------------------------------------
Configure ==
    /\ UNCHANGED prior
    /\ pc = "idle"
    /\ \E options \in ConfigOptions : self' = _configure(self, options)
    /\ pc' = "ready"
    /\ UNCHANGED <<board, frames, ret, loc, inp, result, env, probes, completed>>

\* the wall clock passes self.time_deadline
Tick ==
    /\ UNCHANGED prior
    /\ pc \notin {"idle", "ready", "done", "raised", "csv", "book", "tb", "core"}
    /\ ~env.late
    /\ env' = [env EXCEPT !.late = TRUE]
    /\ UNCHANGED <<self, board, pc, frames, ret, loc, inp, result, probes, completed>>

\* the host calls search(board, time_limit, ponder, draw_offered, root_moves)
CallSearch ==
    /\ UNCHANGED prior
    /\ pc \in {"idle", "ready"}
    /\ \E i \in SearchInputs :
         /\ inp' = i
         /\ board' = BoardAt(i.root)
    /\ pc' = "csv"
    /\ UNCHANGED <<self, frames, ret, loc, result, env, probes, completed>>

ProbeResult(move) == [kind |-> "book", move |-> move, depth |-> 0, nodes |-> 0,
                      pv |-> <<move>>, score |-> 0, exc |-> "none"]

\* search, lines 122-131: the CSV opening collaborator
ProbeCsv ==
    /\ UNCHANGED prior
    /\ pc = "csv"
    /\ probes' = Append(probes, "csv")
    /\ \E csv_pick \in Answers(board) :
         IF csv_pick /= None
         THEN /\ result' = [ProbeResult(csv_pick) EXCEPT !.kind = "csv"]
              /\ pc' = "done"
         ELSE /\ result' = result
              /\ pc' = "book"
    /\ UNCHANGED <<self, board, frames, ret, loc, inp, env, completed>>

\* search, lines 133-142: the Polyglot book collaborator
ProbeBook ==
    /\ UNCHANGED prior
    /\ pc = "book"
    /\ IF self.use_book /\ self.book_paths /\ StackLen(board) < 2 * self.max_depth
       THEN /\ probes' = Append(probes, "book")
            /\ \E move \in Answers(board) :
                 IF move /= None
                 THEN /\ result' = ProbeResult(move)
                      /\ pc' = "done"
                 ELSE /\ result' = result
                      /\ pc' = "tb"
       ELSE /\ probes' = probes
            /\ result' = result
            /\ pc' = "tb"
    /\ UNCHANGED <<self, board, frames, ret, loc, inp, env, completed>>

\* search, lines 144-153: the Syzygy collaborator; in_range is what its
\* _tb_in_range answers
ProbeTb ==
    /\ UNCHANGED prior
    /\ pc = "tb"
    /\ \E in_range \in BOOLEAN :
         IF self.tb /\ in_range
         THEN /\ probes' = Append(probes, "tb")
              /\ \E tb_move \in Answers(board) :
                   IF tb_move /= None
                   THEN /\ result' = [ProbeResult(tb_move) EXCEPT !.kind = "tb"]
                        /\ pc' = "done"
                   ELSE /\ result' = result
                        /\ pc' = "core"
         ELSE /\ probes' = probes
              /\ result' = result
              /\ pc' = "core"
    /\ UNCHANGED <<self, board, frames, ret, loc, inp, env, completed>>

\* engines/opening.py, opening_move, lines 191-209: the same three
\* collaborators behind one function.  tb_open: ensure_tb left a tablebase
\* open; the answers are what each collaborator says when it is asked.
tb_in_range(b, limit) ==
    LET probe_limit == IF 3 <= limit /\ limit <= 7 THEN limit ELSE 7
    IN  RootInfo[b.node].pieces <= probe_limit

opening_move(b, tb_open, limit, tb_answer, csv_answer, book_answer) ==
    LET tb_asked == tb_open /\ tb_in_range(b, limit)
    IN  IF tb_asked /\ tb_answer /= None
        THEN [probes |-> <<"tb">>, result |-> [ProbeResult(tb_answer) EXCEPT !.kind = "tb"]]
        ELSE LET asked == IF tb_asked THEN <<"tb">> ELSE << >>
             IN  IF csv_answer /= None
                 THEN [probes |-> asked \o <<"csv">>,
                       result |-> [ProbeResult(csv_answer) EXCEPT !.kind = "csv"]]
                 ELSE IF book_answer /= None
                 THEN [probes |-> asked \o <<"csv", "book">>,
                       result |-> ProbeResult(book_answer)]
                 ELSE [probes |-> asked \o <<"csv", "book">>, result |-> NoResult]

OpeningRoots == {1, 33}

\* the host calls opening_move(board, options)
OpeningMove ==
    /\ UNCHANGED prior
    /\ pc = "idle"
    /\ \E r \in OpeningRoots, tb_open \in BOOLEAN, limit \in {5, 9} :
         \E tb_answer, csv_answer, book_answer \in Answers(BoardAt(r)) :
           LET out == opening_move(BoardAt(r), tb_open, limit, tb_answer, csv_answer,
                                   book_answer)
           IN  /\ inp' = [root |-> r, time_limit |-> NoLimit, root_moves |-> NoList]
               /\ board' = BoardAt(r)
               /\ probes' = out.probes
               /\ result' = out.result
    /\ pc' = "done"
    /\ UNCHANGED <<self, frames, ret, loc, env, completed>>

\* ------------------------------------------------------------------------
\* Activations
\* ------------------------------------------------------------------------
NewFrame(fn, depth, alpha, beta, ply, is_pv, filt) ==
    [fn |-> fn, pc |-> "entry", depth |-> depth, alpha |-> alpha, beta |-> beta,
     ply |-> ply, is_pv |-> is_pv, filt |-> filt, key |-> 0, tt_move |-> None,
     is_check |-> FALSE, best_move |-> None, best_score |-> -INF, orig_alpha |-> 0,
     moves_searched |-> 0, moves |-> << >>, i |-> 0, move |-> None,
     do_reduction |-> FALSE, reduction |-> 0, score |-> 0]

Top == frames[Len(frames)]
SetTop(f) == [frames EXCEPT ![Len(frames)] = f]
Call(f, g) == Append(SetTop(f), g)
Popped == SubSeq(frames, 1, Len(frames) - 1)
Result(score, move) == [score |-> score, move |-> move]

\* the stop test without the clock reading of line 603
TimeUp_clock_unread == _time_up(self.stop, self.max_nodes, self.nodes, FALSE)

\* self._time_up() at node entry
TimeUp == _time_up(self.stop, self.max_nodes, self.nodes, env.late)

\* ------------------------------------------------------------------------
\* Actions: DragonBot.search, the core
\* ------------------------------------------------------------------------
\* lines 155-180: reset, time allocation, age, the depth-1 call
SearchBegin ==
    /\ UNCHANGED prior
    /\ pc = "core"
    /\ \E tm \in {calculate_time_allocation(board, RootInfo[inp.root], inp.time_limit,
                                             self.max_depth)},
          age1 \in {self.age + 1},
          allowed_root \in {[list |-> inp.root_moves.list,
                             set |-> {inp.root_moves.moves[i] :
                                          i \in 1..Len(inp.root_moves.moves)}]} :
           IF tm.exc /= "none"
           THEN /\ self' = [self EXCEPT !.nodes = 0, !.stop = FALSE]
                /\ result' = [NoResult EXCEPT !.kind = "exception", !.exc = tm.exc]
                /\ pc' = "raised"
                /\ UNCHANGED <<frames, loc>>
           ELSE /\ self' = [self EXCEPT
                              !.nodes = 0, !.stop = FALSE, !.time_budget = tm.time,
                              !.age = age1,
                              !.killer_moves =
                                  IF age1 % 4 = 0
                                  THEN [k \in {x \in DOMAIN @ : x < 50} |-> @[k]]
                                  ELSE @,
                              !.pv_table = EmptyDict]
                /\ loc' = [NoLoc EXCEPT !.allowed_root = allowed_root,
                                        !.adaptive_max_depth = tm.depth,
                                        !.depth = 1]
                /\ frames' = <<NewFrame("pvs", 1, -INF, INF, 0, TRUE, allowed_root.list)>>
                /\ pc' = "wait_d1"
                /\ result' = result
    /\ env' = [env EXCEPT !.late = FALSE]
    /\ completed' = NoCompleted
    /\ UNCHANGED <<board, ret, inp, probes>>

\* an adoption that does not ask whether the iteration produced a move
AdoptAlways(l, score, move, pv) ==
    [l EXCEPT !.best_move = move, !.best_score = score, !.pv = pv]

\* lines 181-184 and 204-207: "if move is not None" adopt move, score and PV
Adopt(l, score, move, pv) ==
    IF move /= None
    THEN [l EXCEPT !.best_move = move, !.best_score = score, !.pv = pv]
    ELSE l

Snapshot(l) == [valid |-> TRUE, move |-> l.best_move, score |-> l.best_score,
                pv |-> l.pv, depth |-> l.last_depth, cut |-> FALSE]
CutShort == [completed EXCEPT !.cut = TRUE]

\* lines 181-187: the result of the depth-1 search
SearchDepthOne ==
    /\ UNCHANGED prior
    /\ pc = "wait_d1" /\ frames = << >>
    /\ \E ex \in {_extract_pv(board, self.pv_table, env.hash_mode)} :
       \E l1 \in {[Adopt(loc, ret.score, ret.move, ex.pv) EXCEPT
                      !.score = ret.score, !.move = ret.move, !.last_depth = 1,
                      !.stopped_reason = "reached max depth", !.depth = 2]} :
           /\ loc' = l1
           /\ board' = IF ret.move /= None THEN ex.board ELSE board
           /\ completed' = IF completed.cut THEN completed ELSE Snapshot(l1)
    /\ pc' = "iter"
    /\ UNCHANGED <<self, frames, ret, inp, result, env, probes>>

\* lines 188-198: the head of the loop, the stop test, the aspiration call
IterBegin ==
    /\ UNCHANGED prior
    /\ pc = "iter"
    /\ IF loc.depth > loc.adaptive_max_depth
       THEN /\ pc' = "finish"
            /\ UNCHANGED <<self, loc, frames>>
       ELSE IF TimeUp.ret
       THEN /\ self' = [self EXCEPT !.stop = TimeUp.stop]
            /\ loc' = [loc EXCEPT !.stopped_reason = "time up"]
            /\ pc' = "finish"
            /\ UNCHANGED frames
       ELSE LET alpha == Max(-INF, loc.best_score - AspirationDelta)
                beta == Min(INF, loc.best_score + AspirationDelta)
            IN  /\ self' = [self EXCEPT !.pv_table = EmptyDict]
                /\ loc' = [loc EXCEPT !.alpha = alpha, !.beta = beta]
                /\ frames' = <<NewFrame("pvs", loc.depth, alpha, beta, 0, TRUE,
                                        loc.allowed_root.list)>>
                /\ pc' = "wait_asp"
    /\ UNCHANGED <<board, ret, inp, result, env, probes, completed>>

\* lines 198-201: the aspiration result, and the full-window call when it
\* fell outside the window
IterAspiration ==
    /\ UNCHANGED prior
    /\ pc = "wait_asp" /\ frames = << >>
    /\ loc' = [loc EXCEPT !.score = ret.score, !.move = ret.move]
    /\ IF ret.score <= loc.alpha \/ ret.score >= loc.beta
       THEN /\ frames' = <<NewFrame("pvs", loc.depth, -INF, INF, 0, TRUE,
                                    loc.allowed_root.list)>>
            /\ pc' = "wait_full"
       ELSE /\ frames' = frames
            /\ pc' = "iter_end"
    /\ UNCHANGED <<self, board, ret, inp, result, env, probes, completed>>

\* line 201: the result of the full-window call
IterResearch ==
    /\ UNCHANGED prior
    /\ pc = "wait_full" /\ frames = << >>
    /\ loc' = [loc EXCEPT !.score = ret.score, !.move = ret.move]
    /\ pc' = "iter_end"
    /\ UNCHANGED <<self, board, frames, ret, inp, result, env, probes, completed>>

\* lines 203-219: adopt the iteration, then the three ways out of the loop
IterEnd ==
    /\ UNCHANGED prior
    /\ pc = "iter_end"
    /\ \E ex \in {_extract_pv(board, self.pv_table, env.hash_mode)}, tu \in {TimeUp} :
       \E l1 \in {[Adopt(loc, loc.score, loc.move, ex.pv) EXCEPT !.last_depth = loc.depth]} :
           /\ board' = IF loc.move /= None THEN ex.board ELSE board
           /\ completed' = IF completed.cut THEN completed ELSE Snapshot(l1)
           /\ self' = [self EXCEPT !.stop = tu.stop]
           /\ IF tu.ret
              THEN /\ loc' = [l1 EXCEPT !.stopped_reason = "time up"]
                   /\ pc' = "finish"
              ELSE IF self.max_nodes /= 0 /\ self.nodes >= self.max_nodes
              THEN /\ loc' = [l1 EXCEPT !.stopped_reason = "nodes limit"]
                   /\ pc' = "finish"
              ELSE IF Abs(l1.best_score) > MATE_SCORE - MateBand
              THEN /\ loc' = [l1 EXCEPT !.stopped_reason = "mate found"]
                   /\ pc' = "finish"
              ELSE /\ loc' = [l1 EXCEPT !.depth = loc.depth + 1]
                   /\ pc' = "iter"
    /\ UNCHANGED <<frames, ret, inp, result, env, probes>>

\* lines 221-240: the random fallback and the PlayResult
SearchFinish ==
    /\ UNCHANGED prior
    /\ pc = "finish"
    /\ LET legal_moves_list == LegalMoves(board)
           moves == IF ~loc.allowed_root.list THEN legal_moves_list
                    ELSE SelectSeq(legal_moves_list,
                                   LAMBDA m : MoveOf(m) \in loc.allowed_root.set)
           choices == IF loc.best_move /= None THEN {loc.best_move}
                      ELSE IF Len(moves) = 0 THEN {None}
                      ELSE {MoveOf(moves[i]) : i \in 1..Len(moves)}
       IN  \E best_move \in choices :
             result' = [kind |-> "engine", move |-> best_move, depth |-> loc.last_depth,
                        nodes |-> self.nodes, pv |-> loc.pv, score |-> loc.best_score,
                        exc |-> "none"]
    /\ pc' = "done"
    /\ UNCHANGED <<self, board, frames, ret, loc, inp, env, probes, completed>>

\* ------------------------------------------------------------------------
\* Actions: _pvs
\* ------------------------------------------------------------------------
InPvs(label) == Len(frames) > 0 /\ Top.fn = "pvs" /\ Top.pc = label
InQ(label) == Len(frames) > 0 /\ Top.fn = "q" /\ Top.pc = label

\* the answer of a transposition-table probe: [cut, score, move]
NoCut == [cut |-> FALSE, score |-> 0, move |-> None]
Cut(score, move) == [cut |-> TRUE, score |-> score, move |-> move]

\* lines 265-272
PvsProbe(tt, key, depth, alpha, beta, is_pv) ==
    IF key \in DOMAIN tt /\ tt[key].depth >= depth /\ ~is_pv
    THEN LET entry == tt[key]
         IN  IF entry.flag = 0 THEN Cut(entry.score, entry.best_move)
             ELSE IF entry.flag < 0 /\ entry.score <= alpha THEN Cut(alpha, entry.best_move)
             ELSE IF entry.flag > 0 /\ entry.score >= beta THEN Cut(beta, entry.best_move)
             ELSE NoCut
    ELSE NoCut

\* the terminal tests without the draw claim of lines 253-254
PvsTerminalNoClaim(b, ply) ==
    IF IsCheckmate(b) THEN [hit |-> TRUE, score |-> -MATE_SCORE + ply]
    ELSE IF IsStalemate(b) \/ IsInsufficientMaterial(b) THEN [hit |-> TRUE, score |-> 0]
    ELSE [hit |-> FALSE, score |-> 0]

\* lines 249-254: the terminal tests at node entry: [hit, score]
PvsTerminal(b, ply) ==
    IF IsCheckmate(b) THEN [hit |-> TRUE, score |-> -MATE_SCORE + ply]
    ELSE IF IsStalemate(b) \/ IsInsufficientMaterial(b) THEN [hit |-> TRUE, score |-> 0]
    ELSE IF CanClaimDraw(b) THEN [hit |-> TRUE, score |-> 0]
    ELSE [hit |-> FALSE, score |-> 0]

\* lines 244-275: stop test, node count, terminal tests, mate-distance
\* pruning, table probe, and the drop into quiescence
PvsEntry ==
    /\ UNCHANGED prior
    /\ InPvs("entry")
    /\ LET f == Top
           tu == TimeUp
           term == PvsTerminal(board, f.ply)
           alpha == Max(f.alpha, -MATE_SCORE + f.ply)
           beta == Min(f.beta, MATE_SCORE - f.ply - 1)
           key == HashKey(board, env.hash_mode)
           tt_move == IF key \in DOMAIN self.tt THEN self.tt[key].best_move ELSE None
           probe == PvsProbe(self.tt, key, f.depth, alpha, beta, f.is_pv)
       IN  IF tu.ret
           THEN /\ self' = [self EXCEPT !.stop = tu.stop]
                /\ frames' = Popped
                /\ ret' = Result(0, None)
                /\ completed' = CutShort
           ELSE /\ self' = [self EXCEPT !.stop = tu.stop, !.nodes = @ + 1]
                /\ completed' = completed
                /\ IF term.hit
                   THEN frames' = Popped /\ ret' = Result(term.score, None)
                   ELSE IF alpha >= beta
                   THEN frames' = Popped /\ ret' = Result(alpha, None)
                   ELSE IF probe.cut
                   THEN frames' = Popped /\ ret' = Result(probe.score, probe.move)
                   ELSE IF f.depth <= 0
                   THEN /\ frames' = Call([f EXCEPT !.pc = "wait_q", !.alpha = alpha,
                                                    !.beta = beta, !.key = key,
                                                    !.tt_move = tt_move],
                                          NewFrame("q", 0, alpha, beta, f.ply, FALSE, FALSE))
                        /\ ret' = ret
                   ELSE /\ frames' = SetTop([f EXCEPT !.pc = "null", !.alpha = alpha,
                                                      !.beta = beta, !.key = key,
                                                      !.tt_move = tt_move])
                        /\ ret' = ret
    /\ UNCHANGED <<board, pc, loc, inp, result, env, probes>>

\* lines 277-283: null-move pruning, up to its recursive call
PvsNullMove ==
    /\ UNCHANGED prior
    /\ InPvs("null")
    /\ LET f == Top
           is_check == IsCheck(board)
           R == IF f.depth > 6 THEN 3 ELSE 2
       IN  IF ~f.is_pv /\ ~is_check /\ f.depth >= 3 /\ _has_non_pawn_material(board)
           THEN /\ board' = PushNull(board)
                /\ frames' = Call([f EXCEPT !.pc = "wait_null", !.is_check = is_check],
                                  NewFrame("pvs", f.depth - 1 - R, -f.beta, -f.beta + 1,
                                           f.ply + 1, FALSE, FALSE))
           ELSE /\ board' = board
                /\ frames' = SetTop([f EXCEPT !.pc = "iid", !.is_check = is_check])
    /\ UNCHANGED <<self, pc, ret, loc, inp, result, env, probes, completed>>

\* lines 289-290: internal iterative deepening, up to its recursive call
PvsIID ==
    /\ UNCHANGED prior
    /\ InPvs("iid")
    /\ LET f == Top
       IN  IF f.is_pv /\ f.tt_move = None /\ f.depth >= 4
           THEN frames' = Call([f EXCEPT !.pc = "wait_iid"],
                               NewFrame("pvs", f.depth - 2, f.alpha, f.beta, f.ply, TRUE, FALSE))
           ELSE frames' = SetTop([f EXCEPT !.pc = "gen"])
    /\ UNCHANGED <<self, board, pc, ret, loc, inp, result, env, probes, completed>>

FutilityMargin(depth) == <<0, 200, 350, 500>>[depth + 1]

\* the move list without the filter of lines 306-307
RootFilterOff(moves, filt, ply, allowed) == moves

\* line 306-307: the root-move filter
RootFilter(moves, filt, ply, allowed) ==
    IF filt /\ ply = 0
    THEN SelectSeq(moves, LAMBDA m : MoveOf(m) \in allowed)
    ELSE moves

\* lines 294-313: futility pruning, move ordering, root filter, check extension
PvsMoveGen ==
    /\ UNCHANGED prior
    /\ InPvs("gen")
    /\ \E f \in {Top} :
       \E futile \in {/\ f.depth <= 3 /\ ~f.is_pv /\ ~f.is_check
                       /\ Abs(f.alpha) < MATE_SCORE - MateBand
                       /\ _evaluate(board, self.time_budget) + FutilityMargin(f.depth)
                             <= f.alpha},
          om \in {_ordered_moves(board, f.tt_move, f.ply, self.killer_moves,
                                 self.counter_moves, self.history_heuristic)} :
       \E moves \in {RootFilter(om.moves, f.filt, f.ply, loc.allowed_root.set)} :
           IF futile
           THEN /\ frames' = Popped /\ ret' = Result(f.alpha, None)
                /\ board' = board
           ELSE /\ board' = om.board
                /\ IF Len(moves) = 0
                   THEN frames' = Popped /\ ret' = Result(0, None)
                   ELSE /\ frames' = SetTop([f EXCEPT
                                               !.pc = "loop", !.best_move = None,
                                               !.best_score = -INF, !.orig_alpha = f.alpha,
                                               !.moves_searched = 0, !.moves = moves, !.i = 1,
                                               !.depth = IF f.is_check THEN @ + 1 ELSE @])
                        /\ ret' = ret
    /\ UNCHANGED <<self, pc, loc, inp, result, env, probes, completed>>

\* board.is_capture(move) asked after board.push(move): the destination now
\* holds a piece of the side that is not to move, so the answer is True
IsCaptureAfterPush(m) == TRUE

\* lines 344-346: the full-window search of a later move, or none
FullWindow(f, score) ==
    IF score > f.alpha /\ score < f.beta
    THEN Call([f EXCEPT !.pc = "wait_full", !.score = score],
              NewFrame("pvs", f.depth - 1, -f.beta, -f.alpha, f.ply + 1, f.is_pv, FALSE))
    ELSE SetTop([f EXCEPT !.pc = "unmake", !.score = score])

\* lines 315-346: push the move, decide the reduction, make the first
\* recursive call the move gets (a later move that is not reduced gets
\* score = alpha + 1 without a scout search)
PvsMakeMove ==
    /\ UNCHANGED prior
    /\ InPvs("loop")
    /\ LET f0 == Top
           move == f0.moves[f0.i]
           pushed == Push(board, move)
           do_reduction == /\ ~f0.is_pv /\ f0.moves_searched >= 4 /\ f0.depth >= 3
                           /\ ~f0.is_check /\ ~IsCheck(pushed)
                           /\ ~IsCaptureAfterPush(move) /\ move.promo = 0
           reduction == IF do_reduction
                        THEN (IF f0.moves_searched >= 8 THEN 2 ELSE 1)
                             + (IF f0.depth > 6 THEN 1 ELSE 0)
                        ELSE 0
           f == [f0 EXCEPT !.do_reduction = do_reduction, !.reduction = reduction]
       IN  /\ board' = pushed
           /\ frames' =
                IF f.moves_searched = 0
                THEN Call([f EXCEPT !.pc = "wait_first"],
                          NewFrame("pvs", f.depth - 1, -f.beta, -f.alpha, f.ply + 1,
                                   f.is_pv, FALSE))
                ELSE IF do_reduction
                THEN Call([f EXCEPT !.pc = "wait_lmr"],
                          NewFrame("pvs", f.depth - 1 - reduction, -f.alpha - 1, -f.alpha,
                                   f.ply + 1, FALSE, FALSE))
                ELSE FullWindow(f, f.alpha + 1)
    /\ UNCHANGED <<self, pc, ret, loc, inp, result, env, probes, completed>>

\* the continuation of _pvs after a call it made has returned:
\* line 275 (quiescence), 284-287 (null move), 291-292 (IID),
\* 332 (first move), 336-342 (reduced scout), 342-346 (scout), 346 (full)
PvsResume ==
    /\ UNCHANGED prior
    /\ Len(frames) > 0 /\ Top.fn = "pvs"
    /\ Top.pc \in {"wait_q", "wait_null", "wait_iid", "wait_first", "wait_lmr",
                   "wait_scout", "wait_full"}
    /\ LET f == Top
           score == -ret.score
       IN  CASE f.pc = "wait_q" ->
                  /\ frames' = Popped /\ ret' = Result(ret.score, None)
                  /\ board' = board
             [] f.pc = "wait_null" ->
                  /\ board' = Pop(board)
                  /\ IF score >= f.beta
                     THEN frames' = Popped /\ ret' = Result(f.beta, None)
                     ELSE frames' = SetTop([f EXCEPT !.pc = "iid"]) /\ ret' = ret
             [] f.pc = "wait_iid" ->
                  /\ frames' = SetTop([f EXCEPT !.pc = "gen",
                                                !.tt_move = IF Truthy(ret.move) THEN ret.move ELSE @])
                  /\ ret' = ret
                  /\ board' = board
             [] f.pc = "wait_first" ->
                  /\ frames' = SetTop([f EXCEPT !.pc = "unmake", !.score = score])
                  /\ ret' = ret
                  /\ board' = board
             [] f.pc = "wait_lmr" ->
                  /\ frames' = IF score > f.alpha
                               THEN Call([f EXCEPT !.pc = "wait_scout", !.score = score],
                                         NewFrame("pvs", f.depth - 1, -f.alpha - 1, -f.alpha,
                                                  f.ply + 1, FALSE, FALSE))
                               ELSE FullWindow(f, score)
                  /\ ret' = ret
                  /\ board' = board
             [] f.pc = "wait_scout" ->
                  /\ frames' = FullWindow(f, score)
                  /\ ret' = ret
                  /\ board' = board
             [] f.pc = "wait_full" ->
                  /\ frames' = SetTop([f EXCEPT !.pc = "unmake", !.score = score])
                  /\ ret' = ret
                  /\ board' = board
    /\ UNCHANGED <<self, pc, loc, inp, result, env, probes, completed>>

\* lines 358-363: the tables written on a beta cutoff
CutoffTables(me, b, m, depth, ply) ==
    LET move == MoveOf(m)
        h == _update_history(me.history_heuristic, b, move, depth)
        prev_move == Peek(b)
    IN  IF ~m.cap
        THEN [me EXCEPT !.history_heuristic = h,
                        !.killer_moves = _update_killers(@, ply, move),
                        !.counter_moves = IF StackLen(b) > 0
                                          THEN Put(@, <<prev_move.from, prev_move.to>>, move)
                                          ELSE @]
        ELSE [me EXCEPT !.history_heuristic = h]

\* lines 348-367: pop, count the move, raise best/alpha, record the PV move,
\* cut off, poll the stop flag
PvsUnmake ==
    /\ UNCHANGED prior
    /\ InPvs("unmake")
    /\ \E f \in {Top}, popped \in {Pop(board)} :
       \E m \in {f.moves[f.i]}, better \in {f.score > f.best_score} :
       \E move \in {MoveOf(m)}, raised \in {better /\ f.score > f.alpha} :
       \E alpha \in {IF raised THEN f.score ELSE f.alpha} :
       \E cutoff \in {raised /\ alpha >= f.beta},
          me1 \in {IF raised THEN [self EXCEPT !.pv_table = Put(@, f.key, move)] ELSE self} :
       \E me2 \in {IF cutoff THEN CutoffTables(me1, popped, m, f.depth, f.ply) ELSE me1},
          f1 \in {[f EXCEPT !.moves_searched = @ + 1,
                            !.best_score = IF better THEN f.score ELSE @,
                            !.best_move = IF better THEN move ELSE @,
                            !.alpha = alpha]} :
       \E tu \in {_time_up(me2.stop, me2.max_nodes, me2.nodes, env.late)} :
           /\ board' = popped
           /\ IF cutoff
              THEN /\ self' = me2
                   /\ frames' = SetTop([f1 EXCEPT !.pc = "store"])
                   /\ completed' = completed
              ELSE /\ self' = [me2 EXCEPT !.stop = tu.stop]
                   /\ frames' = SetTop([f1 EXCEPT
                                          !.pc = IF tu.ret \/ f.i = Len(f.moves)
                                                 THEN "store" ELSE "loop",
                                          !.i = @ + 1])
                   /\ completed' = IF tu.ret /\ f.i < Len(f.moves) THEN CutShort
                                   ELSE completed
    /\ UNCHANGED <<pc, ret, loc, inp, result, env, probes>>

\* lines 369-378: the flag, the table store, the return
PvsStore ==
    /\ UNCHANGED prior
    /\ InPvs("store")
    /\ LET f == Top
           flag == IF f.best_score <= f.orig_alpha THEN -1
                   ELSE IF f.best_score >= f.beta THEN 1 ELSE 0
           entry == TTEntry(f.depth, f.best_score, flag, f.best_move, self.age)
       IN  /\ \E coin \in (IF Cardinality(DOMAIN self.tt) >= self.tt_size THEN BOOLEAN ELSE {FALSE}) :
                self' = [self EXCEPT !.tt = _store_tt(@, self.tt_size, f.key, entry, self.age, coin)]
           /\ frames' = Popped
           /\ ret' = Result(f.best_score, f.best_move)
    /\ UNCHANGED <<board, pc, loc, inp, result, env, probes, completed>>

\* ------------------------------------------------------------------------
\* Actions: _quiescence
\* ------------------------------------------------------------------------
\* lines 388-395
QProbe(tt, key, alpha, beta) ==
    IF key \in DOMAIN tt /\ tt[key].depth >= 0
    THEN LET entry == tt[key]
         IN  IF entry.flag = 0 THEN Cut(entry.score, None)
             ELSE IF entry.flag < 0 /\ entry.score <= alpha THEN Cut(alpha, None)
             ELSE IF entry.flag > 0 /\ entry.score >= beta THEN Cut(beta, None)
             ELSE NoCut
    ELSE NoCut

\* lines 381-410: stop test, node count, table probe, stand pat, delta
\* pruning, the capture list
QEntry ==
    /\ UNCHANGED prior
    /\ InQ("entry")
    /\ LET f == Top
           tu == TimeUp
           key == HashKey(board, env.hash_mode)
           probe == QProbe(self.tt, key, f.alpha, f.beta)
           stand_pat == _evaluate(board, self.time_budget)
           alpha == IF f.alpha < stand_pat THEN stand_pat ELSE f.alpha
           caps == _ordered_captures(board)
       IN  IF tu.ret
           THEN /\ self' = [self EXCEPT !.stop = tu.stop]
                /\ frames' = Popped
                /\ ret' = Result(0, None)
                /\ completed' = CutShort
           ELSE /\ self' = [self EXCEPT !.stop = tu.stop, !.nodes = @ + 1]
                /\ completed' = completed
                /\ IF probe.cut
                   THEN frames' = Popped /\ ret' = Result(probe.score, None)
                   ELSE IF stand_pat >= f.beta
                   THEN frames' = Popped /\ ret' = Result(f.beta, None)
                   ELSE IF stand_pat < f.alpha - BIG_DELTA
                   THEN frames' = Popped /\ ret' = Result(f.alpha, None)
                   ELSE /\ frames' = SetTop([f EXCEPT
                                               !.key = key, !.alpha = alpha,
                                               !.orig_alpha = alpha, !.moves = caps, !.i = 1,
                                               !.pc = IF Len(caps) = 0 THEN "store" ELSE "loop"])
                        /\ ret' = ret
    /\ UNCHANGED <<board, pc, loc, inp, result, env, probes>>

\* lines 410-415: one turn of the capture loop: skip a losing capture that
\* gives no check, or push the move and recurse
QMakeMove ==
    /\ UNCHANGED prior
    /\ InQ("loop")
    /\ LET f == Top
           move == f.moves[f.i]
           see == IF move.chk THEN [gain |-> 0, board |-> board] ELSE _see(board, move)
       IN  IF ~move.chk /\ see.gain < 0
           THEN /\ board' = see.board
                /\ frames' = SetTop([f EXCEPT !.i = @ + 1,
                                              !.pc = IF f.i = Len(f.moves) THEN "store" ELSE "loop"])
           ELSE /\ board' = Push(see.board, move)
                /\ frames' = Call([f EXCEPT !.pc = "wait"],
                                  NewFrame("q", 0, -f.beta, -f.alpha, f.ply + 1, FALSE, FALSE))
    /\ UNCHANGED <<self, pc, ret, loc, inp, result, env, probes, completed>>

\* lines 415-426: the score of the capture, pop, cutoff store, stop poll
QUnmake ==
    /\ UNCHANGED prior
    /\ InQ("wait")
    /\ LET f == Top
           m == f.moves[f.i]
           score == -ret.score
           alpha == IF score > f.alpha THEN score ELSE f.alpha
           tu == TimeUp
       IN  /\ board' = Pop(board)
           /\ IF score >= f.beta
              THEN /\ \E coin \in (IF Cardinality(DOMAIN self.tt) >= self.tt_size
                                   THEN BOOLEAN ELSE {FALSE}) :
                        self' = [self EXCEPT !.tt =
                                   _store_tt(@, self.tt_size, f.key, TTEntry(0, f.beta, 1, MoveOf(m), self.age),
                                             self.age, coin)]
                   /\ frames' = Popped
                   /\ ret' = Result(f.beta, None)
                   /\ completed' = completed
              ELSE /\ self' = [self EXCEPT !.stop = tu.stop]
                   /\ frames' = SetTop([f EXCEPT
                                          !.alpha = alpha, !.i = @ + 1,
                                          !.pc = IF tu.ret \/ f.i = Len(f.moves)
                                                 THEN "store" ELSE "loop"])
                   /\ ret' = ret
                   /\ completed' = IF tu.ret /\ f.i < Len(f.moves) THEN CutShort
                                   ELSE completed
    /\ UNCHANGED <<pc, loc, inp, result, env, probes>>

\* lines 428-431: the flag, the table store, the return
QStore ==
    /\ UNCHANGED prior
    /\ InQ("store")
    /\ LET f == Top
           flag == IF f.alpha > f.orig_alpha THEN 0 ELSE -1
       IN  /\ \E coin \in (IF Cardinality(DOMAIN self.tt) >= self.tt_size THEN BOOLEAN ELSE {FALSE}) :
                self' = [self EXCEPT !.tt =
                           _store_tt(@, self.tt_size, f.key, TTEntry(0, f.alpha, flag, None, self.age),
                                     self.age, coin)]
           /\ frames' = Popped
           /\ ret' = Result(f.alpha, None)
    /\ UNCHANGED <<board, pc, loc, inp, result, env, probes, completed>>

\* ------------------------------------------------------------------------
\* Specification
\* ------------------------------------------------------------------------
Next ==
    \/ Configure
    \/ CallSearch
    \/ OpeningMove
    \/ ProbeCsv
    \/ ProbeBook
    \/ ProbeTb
    \/ SearchBegin
    \/ SearchDepthOne
    \/ IterBegin
    \/ IterAspiration
    \/ IterResearch
    \/ IterEnd
    \/ SearchFinish
    \/ Tick
    \/ PvsEntry
    \/ PvsNullMove
    \/ PvsIID
    \/ PvsMoveGen
    \/ PvsMakeMove
    \/ PvsResume
    \/ PvsUnmake
    \/ PvsStore
    \/ QEntry
    \/ QMakeMove
    \/ QUnmake
    \/ QStore

Spec == Init /\ [][Next]_vars

\* ------------------------------------------------------------------------
\* Properties
\* ------------------------------------------------------------------------
Returned == pc = "done" /\ result.kind = "engine"
RootBoard == BoardAt(inp.root)

\* an activation that has pushed a move (or the null move) and not yet
\* popped it
Holding(f) ==
    \/ f.fn = "pvs" /\ f.pc \in {"wait_null", "wait_first", "wait_lmr", "wait_scout",
                                 "wait_full", "unmake"}
    \/ f.fn = "q" /\ f.pc = "wait"

\* C1: board balance.  All through a call of search the moves on the board
\* beyond those it was given are exactly the moves the live activations of
\* _pvs and _quiescence have pushed and not yet popped; whenever no
\* activation is live (between iterations, after _extract_pv, on return,
\* after a stop) the board is the board that was handed in.  _see and
\* _extract_pv run inside one step, so the same count covers them.
C1_BoardBalance ==
    pc \notin {"idle", "ready"} =>
        /\ Len(board.stack) = Cardinality({i \in 1..Len(frames) : Holding(frames[i])})
        /\ board.base = RootBoard.base
        /\ (frames = << >> => board = RootBoard)

C1_Witness ==
    /\ Returned /\ self.stop /\ result.nodes >= 8 /\ Len(result.pv) >= 2
    /\ board = RootBoard

\* C2: incomplete iterations are discarded.  The best move, score and PV
\* that search returns are those held after the last iteration that ran to
\* completion: nothing from an iteration the stop flag cut short is adopted.
C2_IncompleteDiscarded ==
    Returned =>
        /\ loc.best_move = completed.move
        /\ result.score = completed.score
        /\ result.pv = completed.pv

\* C3: the move search returns after the core ran is None or a legal move of
\* the root position, a member of root_moves when that is a list, and None
\* only when the root has no legal move inside the allowed set.
AllowedAtRoot ==
    {mv \in Answers(RootBoard) \ {None} :
        ~inp.root_moves.list
        \/ \E i \in 1..Len(inp.root_moves.moves) : inp.root_moves.moves[i] = mv}

C3_ReturnedMoveLegal ==
    Returned =>
        /\ result.move = None \/ result.move \in AllowedAtRoot
        /\ result.move = None => AllowedAtRoot = {}

C3_Witness ==
    /\ Returned /\ inp.root_moves.list /\ Len(inp.root_moves.moves) = 3
    /\ result.nodes > 0 /\ completed.valid
    /\ result.move \in AllowedAtRoot
    /\ Cardinality(AllowedAtRoot) < Len(LegalMoves(RootBoard))

\* C4: the PV that search holds and reports has at most 20 moves, and each
\* of them is legal in the position reached by the moves before it.
RECURSIVE PvLegalFrom(_, _)
PvLegalFrom(b, pv) ==
    \/ pv = << >>
    \/ IsLegal(b, Head(pv)) /\ PvLegalFrom(PushMove(b, Head(pv)), Tail(pv))

RECURSIVE PlayFrom(_, _)
PlayFrom(b, pv) == IF pv = << >> THEN b ELSE PlayFrom(PushMove(b, Head(pv)), Tail(pv))

C4_PvLegal ==
    pc \notin {"idle", "ready"} =>
        /\ Len(loc.pv) <= PvLimit /\ PvLegalFrom(RootBoard, loc.pv)
        /\ Len(result.pv) <= PvLimit /\ PvLegalFrom(RootBoard, result.pv)

\* the walk ended on a position whose key holds a move that is not legal there
C4_Witness ==
    /\ Returned /\ Len(result.pv) >= 1
    /\ LET b == PlayFrom(RootBoard, result.pv)
           key == HashKey(b, env.hash_mode)
       IN  /\ key \in DOMAIN self.pv_table
           /\ ~IsLegal(b, self.pv_table[key])

\* C5: neither calculate_time_allocation nor search ends with an exception.
C5_NothingRaises == result.kind /= "exception"

\* C6: when the root has no legal move, search returns move None and
\* score 0, however many iterations ran.
C6_NoLegalMoves ==
    (Returned /\ Len(LegalMoves(RootBoard)) = 0) =>
        result.move = None /\ result.score = 0

C6_Witness ==
    /\ Returned /\ IsCheckmate(RootBoard) /\ result.depth >= 2
    /\ result.move = None /\ result.score = 0

\* C7: when the root is a stalemate, has insufficient material or allows a
\* draw claim, the score search reports is 0.
RootIsDraw ==
    IsStalemate(RootBoard) \/ IsInsufficientMaterial(RootBoard) \/ CanClaimDraw(RootBoard)

C7_RootDrawScore == (Returned /\ RootIsDraw) => result.score = 0

C7_Witness ==
    /\ Returned /\ CanClaimDraw(RootBoard) /\ Len(LegalMoves(RootBoard)) > 0
    /\ result.depth >= 2 /\ ~self.stop /\ result.score = 0

\* C8: with a forced mate in N moves for the side to move inside the depth
\* searched, and no early stop, search reports |score| >= MATE - (2N - 1)
\* and returns a first move of a forced mate; for a mate in one the move
\* checkmates and the score is MATE - 1.
RECURSIVE Mates(_, _)
Mates(node, n) ==
    \E i \in 1..Len(Game[node].moves) :
        LET d == Game[node].moves[i].dst
        IN  \/ Game[d].check /\ Len(Game[d].moves) = 0
            \/ /\ n > 1 /\ Len(Game[d].moves) > 0
               /\ \A j \in 1..Len(Game[d].moves) : Mates(Game[d].moves[j].dst, n - 1)

MatingMoves(node, n) ==
    {MoveOf(Game[node].moves[i]) : i \in
        {k \in 1..Len(Game[node].moves) :
            LET d == Game[node].moves[k].dst
            IN  \/ Game[d].check /\ Len(Game[d].moves) = 0
                \/ /\ n > 1 /\ Len(Game[d].moves) > 0
                   /\ \A j \in 1..Len(Game[d].moves) : Mates(Game[d].moves[j].dst, n - 1)}}

MateDistance(node) == IF Mates(node, 1) THEN 1 ELSE IF Mates(node, 2) THEN 2 ELSE 0

C8_MateCorrectness ==
    LET n == MateDistance(inp.root)
    IN  (Returned /\ ~self.stop /\ ~inp.root_moves.list /\ n > 0
              /\ loc.adaptive_max_depth >= 2 * n - 1) =>
            /\ Abs(result.score) >= MATE_SCORE - (2 * n - 1)
            /\ result.move \in MatingMoves(inp.root, n)
            /\ n = 1 => result.score = MATE_SCORE - 1

\* C9: the collaborators are asked in the order CSV opening, Polyglot book,
\* Syzygy tablebase; the first that answers ends the call with its move,
\* depth 0 and nodes 0, and neither a later collaborator nor the core runs.
Rank(name) == CASE name = "csv" -> 1 [] name = "book" -> 2 [] name = "tb" -> 3

C9_ProbeOrder ==
    /\ probes /= << >> => probes[1] = "csv"
    /\ \A i, j \in 1..Len(probes) : i < j => Rank(probes[i]) < Rank(probes[j])
    /\ (pc = "done" /\ result.kind \in {"csv", "book", "tb"}) =>
           /\ probes[Len(probes)] = result.kind
           /\ result.depth = 0 /\ result.nodes = 0
           /\ self.nodes = 0 /\ self.age = 0

\* C10: the depth cap that calculate_time_allocation returns is at most the
\* configured Depth, it is Depth itself (with 1.0 s) when there is no clock,
\* and no iteration is started beyond Depth.
HasNoClock ==
    \/ inp.time_limit.none
    \/ inp.time_limit.white_clock = Absent /\ inp.time_limit.time = Absent

C10_DepthCap ==
    pc \in {"wait_d1", "iter", "wait_asp", "wait_full", "iter_end", "finish"} =>
        /\ loc.adaptive_max_depth <= self.max_depth
        /\ HasNoClock => (self.time_budget = 100 /\ loc.adaptive_max_depth = self.max_depth)
        /\ pc \in {"wait_asp", "wait_full"} => loc.depth <= self.max_depth

\* C11: with Nodes = N > 0 configured, the node counter never exceeds N in
\* any state of a search: _pvs and _quiescence count a node only after
\* _time_up has answered False, and it answers True once nodes >= N.
C11_NodeCap ==
    self.max_nodes /= 0 => self.nodes <= self.max_nodes

\* the cap is reached inside the core search, and the search is stopped by it
C11_Witness ==
    /\ self.max_nodes /= 0
    /\ self.nodes = self.max_nodes
    /\ self.stop
    /\ ~env.late
    /\ frames /= << >>

\* ------------------------------------------------------------------------
\* notify("configure", options) called any number of times before a search
\* ------------------------------------------------------------------------
SuppliedLimits == {2, 3, 5, 7, 8}

ReconfigureOptions ==
    ConfigOptions
    \cup {Options(Unset, Unset, Unset, v, Unset, Unset) : v \in SuppliedLimits}
    \cup {Options(Unset, Unset, Unset, Unset, 0, Unset)}

Reconfigure ==
    /\ UNCHANGED prior
    /\ pc = "idle"
    /\ \E options \in ReconfigureOptions : self' = _configure(self, options)
    /\ UNCHANGED <<board, pc, frames, ret, loc, inp, result, env, probes, completed>>

SpecConfigure == Init /\ [][Reconfigure]_vars

\* C12: after any sequence of configure calls, a call that supplies
\* TablebaseProbeLimit = v leaves the effective limit at v when v is an
\* integer in 3..7, and at 7 when v is anything else.
C12_ProbeLimitClamp ==
    \A v \in SuppliedLimits :
        _configure(self, Options(Unset, Unset, Unset, v, Unset, Unset)).tb_probe_limit
            = IF 3 <= v /\ v <= 7 THEN v ELSE 7

\* ------------------------------------------------------------------------
\* _store_tt called any number of times on a table of capacity TtCap, over
\* searches of increasing age. search always builds the entry with
\* age = self.age; the entry of the search before is drawn as well, so that
\* both sides of the replacement test are exercised.
\* ------------------------------------------------------------------------
TtKeys == 1..(TtCap + 1)
EntryDepths == {0, 1}
StoredEntries(age) ==
    {TTEntry(d, 0, 0, None, a) : d \in EntryDepths, a \in {x \in {age - 1, age} : x >= 0}}

InitStoreTt ==
    /\ self = DragonBot(TtCap)
    /\ board = NoBoard
    /\ pc = "idle"
    /\ frames = << >>
    /\ ret = NoRet
    /\ loc = NoLoc
    /\ inp = NoInp
    /\ result = NoResult
    /\ env = [hash_mode |-> "transposition_key", late |-> FALSE]
    /\ probes = << >>
    /\ completed = NoCompleted
    /\ prior = NoPrior

StoreTt ==
    /\ UNCHANGED prior
    /\ pc = "idle"
    /\ \E key \in TtKeys, entry \in StoredEntries(self.age) :
         \E coin \in (IF Cardinality(DOMAIN self.tt) >= self.tt_size THEN BOOLEAN ELSE {FALSE}) :
            self' = [self EXCEPT !.tt = _store_tt(@, self.tt_size, key, entry, self.age, coin)]
    /\ UNCHANGED <<board, pc, frames, ret, loc, inp, result, env, probes, completed>>

\* search, line 166
NextAge ==
    /\ UNCHANGED prior
    /\ pc = "idle"
    /\ self.age < MaxAge
    /\ self' = [self EXCEPT !.age = @ + 1]
    /\ UNCHANGED <<board, pc, frames, ret, loc, inp, result, env, probes, completed>>

NextStoreTt == StoreTt \/ NextAge

SpecStoreTt == InitStoreTt /\ [][NextStoreTt]_vars

\* C13: after any sequence of _store_tt calls the table holds at most
\* tt_size entries.
C13_BoundedTable ==
    Cardinality(DOMAIN self.tt) <= self.tt_size

\* C14: when the table holds an entry old for key, _store_tt(key, new)
\* leaves key mapped to new if new.depth >= old.depth or new.age >= old.age
\* and to old otherwise, and changes no other key.
C14_Replacement ==
    \A key \in DOMAIN self.tt, new \in StoredEntries(self.age), coin \in BOOLEAN :
        LET old == self.tt[key]
            after == _store_tt(self.tt, self.tt_size, key, new, self.age, coin)
        IN  /\ DOMAIN after = DOMAIN self.tt
            /\ after[key] = IF new.depth >= old.depth \/ new.age >= old.age THEN new ELSE old
            /\ \A k \in DOMAIN self.tt \ {key} : after[k] = self.tt[k]

\* the table holds a deep entry of this search and one of an earlier
\* search: a shallower entry of the search before is refused by the first
\* and replaces the second
C14_Witness ==
    \E k1, k2 \in DOMAIN self.tt :
        /\ self.age >= 2
        /\ self.tt[k1].depth = 1 /\ self.tt[k1].age = self.age
        /\ self.tt[k2].depth = 1 /\ self.tt[k2].age < self.age - 1

\* ------------------------------------------------------------------------
\* _update_killers called any number of times
\* ------------------------------------------------------------------------
KillerPlies == {0, 1}
KillerMoves == {Quiet(6, 21, KNIGHT, Sink), Quiet(12, 28, PAWN, Sink), Quiet(1, 18, KNIGHT, Sink)}

UpdateKillers ==
    /\ UNCHANGED prior
    /\ pc = "idle"
    /\ \E ply \in KillerPlies, m \in KillerMoves :
         self' = [self EXCEPT !.killer_moves = _update_killers(@, ply, MoveOf(m))]
    /\ UNCHANGED <<board, pc, frames, ret, loc, inp, result, env, probes, completed>>

SpecKillers == Init /\ [][UpdateKillers]_vars

\* C15: after _update_killers(ply, move) the list of ply holds at most 2
\* moves, holds no move twice, and has move as its first element.
C15_KillerShape ==
    \A ply \in KillerPlies, m \in KillerMoves :
        LET killers == _update_killers(self.killer_moves, ply, MoveOf(m))[ply]
        IN  /\ Len(killers) <= 2
            /\ \A i, j \in 1..Len(killers) : killers[i] = killers[j] => i = j
            /\ killers[1] = MoveOf(m)

\* ------------------------------------------------------------------------
\* _update_history called any number of times, for either side to move
\* ------------------------------------------------------------------------
HistoryBoards == {BoardAt(1), BoardAt(3)}
HistoryMoves == {Quiet(6, 21, KNIGHT, Sink), Quiet(12, 28, PAWN, Sink)}
HistoryDepths == {40, 70}

UpdateHistory ==
    /\ UNCHANGED prior
    /\ pc = "idle"
    /\ \E b \in HistoryBoards, m \in HistoryMoves, depth \in HistoryDepths :
         self' = [self EXCEPT !.history_heuristic = _update_history(@, b, MoveOf(m), depth)]
    /\ UNCHANGED <<board, pc, frames, ret, loc, inp, result, env, probes, completed>>

SpecHistory == Init /\ [][UpdateHistory]_vars

\* C16: after any sequence of _update_history calls every stored history
\* value lies in 0..10000.
C16_HistoryBounds ==
    \A k \in DOMAIN self.history_heuristic :
        0 <= self.history_heuristic[k] /\ self.history_heuristic[k] <= 10000

\* one value has been held at the cap, which no sum of the bonuses equals,
\* while another is still below it
C16_Witness ==
    \E k1, k2 \in DOMAIN self.history_heuristic :
        /\ self.history_heuristic[k1] = HistoryMax
        /\ 0 < self.history_heuristic[k2] /\ self.history_heuristic[k2] < HistoryMax

\* C18: with a fixed move time t and no clocks, the time allocated by
\* calculate_time_allocation (in hundredths of a second) equals t.
HasMovetime ==
    /\ ~inp.time_limit.none
    /\ inp.time_limit.white_clock = Absent
    /\ inp.time_limit.time /= Absent

C18_MovetimeAllocation ==
    (pc = "wait_d1" /\ HasMovetime) => self.time_budget = inp.time_limit.time

\* C19: in an iteration of depth >= 2 whose aspiration call returned a score
\* at or outside the window (best_score - 50, best_score + 50), the
\* full-window re-search runs to completion and its score lies outside the
\* window on the side of the failure. At the return of the re-search
\* loc.score is still the score of the aspiration call.
ResearchReturned == pc = "wait_full" /\ frames = << >>

C19_AspirationRecovery ==
    ResearchReturned =>
        /\ ~self.stop
        /\ loc.score <= loc.alpha => ret.score <= loc.alpha
        /\ loc.score >= loc.beta => ret.score >= loc.beta

\* C20: the depth that search reports is the depth of an iteration that ran
\* to completion: never that of an iteration the stop flag cut short, and
\* not 1 when the depth-1 search itself was stopped.
C20_ReportedDepth ==
    Returned =>
        IF completed.valid
        THEN 1 <= result.depth /\ result.depth <= completed.depth
        ELSE result.depth /= 1

\* ------------------------------------------------------------------------
\* Two searches of the same position with the same arguments, the tables
\* cleared in between by notify("send_game_result")
\* ------------------------------------------------------------------------
SearchDeep ==
    /\ pc = "idle"
    /\ inp' = [root |-> DeepRoot, time_limit |-> NoClock, root_moves |-> NoList]
    /\ board' = BoardAt(DeepRoot)
    /\ pc' = "csv"
    /\ UNCHANGED <<self, frames, ret, loc, result, env, probes, completed, prior>>

\* notify("send_game_result"), lines 71-76, after the first search returned
GameResult ==
    /\ pc = "done" /\ result.kind = "engine" /\ ~prior.called
    /\ self' = [self EXCEPT !.tt = EmptyDict, !.history_heuristic = EmptyDict,
                            !.killer_moves = EmptyDict, !.counter_moves = EmptyDict]
    /\ prior' = [called |-> TRUE, move |-> result.move, random |-> loc.best_move = None]
    /\ pc' = "cleared"
    /\ UNCHANGED <<board, frames, ret, loc, inp, result, env, probes, completed>>

\* the host calls search again with the arguments of the first call
SearchAgain ==
    /\ pc = "cleared"
    /\ board' = BoardAt(inp.root)
    /\ probes' = << >>
    /\ pc' = "csv"
    /\ UNCHANGED <<self, frames, ret, loc, inp, result, env, completed, prior>>

NextTwice ==
    \/ SearchDeep
    \/ GameResult
    \/ SearchAgain
    \/ ProbeCsv
    \/ ProbeBook
    \/ ProbeTb
    \/ SearchBegin
    \/ SearchDepthOne
    \/ IterBegin
    \/ IterAspiration
    \/ IterResearch
    \/ IterEnd
    \/ SearchFinish
    \/ Tick
    \/ PvsEntry
    \/ PvsNullMove
    \/ PvsIID
    \/ PvsMoveGen
    \/ PvsMakeMove
    \/ PvsResume
    \/ PvsUnmake
    \/ PvsStore
    \/ QEntry
    \/ QMakeMove
    \/ QUnmake
    \/ QStore

SpecTwice == Init /\ [][NextTwice]_vars

\* C17: starting from cleared tables, two search calls on the same position
\* with the same time budget and the same root-move filter, neither of which
\* used the random root fallback, return the same move.
C17_Deterministic ==
    (Returned /\ prior.called /\ ~prior.random /\ loc.best_move /= None)
        => result.move = prior.move

\* ========================================================================
\* GrandmasterEngine (src/homemade.py): minimax with alpha-beta pruning,
\* a transposition table kept from one search to the next, an opening
\* book and endgame tablebases.
\* ========================================================================
GmInf == 999999
GmMateScore == 20000
GmMateBand == 10000
GmMaxDepth == 6
MaxTableSize == 1000000
GmPollEvery == 1000
GmBookPlies == 20
GmTbPieces == 7
GmCheckBonus == 10000
GmPromotionBonus == 9000
GmTtBonus == 5000

\* PIECE_VALUES
GmPieceValue(pt) ==
    CASE pt = PAWN -> 100
      [] pt = KNIGHT -> 320
      [] pt = BISHOP -> 330
      [] pt = ROOK -> 500
      [] pt = QUEEN -> 900
      [] pt = KING -> 20000
      [] OTHER -> 0

\* GrandmasterEngine.__init__: the book and the tablebases are used when
\* their files are found on disk
GrandmasterEngine(book_path, syzygy_path) ==
    [transposition_table |-> EmptyDict, nodes_searched |-> 0,
     max_table_size |-> MaxTableSize,
     opening_book_path |-> book_path, use_opening_book |-> TRUE,
     syzygy_path |-> syzygy_path, use_endgame_tb |-> TRUE]

\* the positions handed to GrandmasterEngine.search: len(board.move_stack)
\* and chess.popcount(board.occupied)
GmRootInfo ==
       70 :> [base |-> 14, pieces |-> 30]
    @@ 74 :> [base |-> 12, pieces |-> 30]
    @@ 40 :> [base |-> 44, pieces |-> 7]
GmRoots == DOMAIN GmRootInfo
GmBoardAt(root) ==
    [node |-> root, stack |-> << >>, base |-> GmRootInfo[root].base, prev |-> None]

\* chess.polyglot.zobrist_hash(board)
ZobristHash(b) == Game[b.node].key

\* board.is_game_over(): checkmate, stalemate or a dead position
IsGameOver(b) == Len(LegalMoves(b)) = 0 \/ IsInsufficientMaterial(b)

\* _evaluate_position: the terminal cases, then the static terms from the
\* side to move's view
_evaluate_position(b) ==
    IF IsCheckmate(b) THEN -GmMateScore
    ELSE IF IsStalemate(b) \/ IsInsufficientMaterial(b) THEN 0
    ELSE Game[b.node].ev + Game[b.node].mob

\* _order_moves.move_priority, before the negation for the ascending sort
move_priority(tt, b, m) ==
    (IF m.chk THEN GmCheckBonus ELSE 0)
    + (IF m.cap /\ m.victim /= 0
       THEN GmPieceValue(m.victim) * 10 - GmPieceValue(m.attacker) ELSE 0)
    + (IF m.promo /= 0 THEN GmPromotionBonus ELSE 0)
    + (IF ZobristHash(Push(b, m)) \in DOMAIN tt THEN GmTtBonus ELSE 0)

_order_moves(tt, b, moves) ==
    SortDesc(moves, [i \in 1..Len(moves) |-> move_priority(tt, b, moves[i])])

\* the transposition-table probe of _minimax_alpha_beta, lines 389-400:
\* a returned score, or the window to go on with
GmHit(score) == [hit |-> TRUE, score |-> score, alpha |-> 0, beta |-> 0]
GmMiss(alpha, beta) == [hit |-> FALSE, score |-> 0, alpha |-> alpha, beta |-> beta]

GmProbe_every_entry_exact(tt, key, depth, alpha, beta) ==
    IF key \in DOMAIN tt /\ tt[key].depth >= depth
    THEN GmHit(tt[key].score)
    ELSE GmMiss(alpha, beta)

GmProbe(tt, key, depth, alpha, beta) ==
    IF key \in DOMAIN tt /\ tt[key].depth >= depth
    THEN LET e == tt[key]
             a == IF e.flag = 1 THEN Max(alpha, e.score) ELSE alpha
             bt == IF e.flag = 2 THEN Min(beta, e.score) ELSE beta
         IN  IF e.flag = 0 THEN GmHit(e.score)
             ELSE IF a >= bt THEN GmHit(e.score)
             ELSE GmMiss(a, bt)
    ELSE GmMiss(alpha, beta)

\* what _minimax_alpha_beta leaves: the engine's table and node counter,
\* and the score it returns
GmRet(tt, nodes, score) == [tt |-> tt, nodes |-> nodes, score |-> score]

\* the move loop's state when it ends: by exhaustion or by a cutoff
GmLoop(tt, nodes, best_score, best_move, alpha, flag) ==
    [tt |-> tt, nodes |-> nodes, best_score |-> best_score, best_move |-> best_move,
     alpha |-> alpha, flag |-> flag]

RECURSIVE _minimax_alpha_beta(_, _, _, _, _, _, _)
RECURSIVE MinimaxMoves(_, _, _, _, _, _, _, _, _, _, _)
RECURSIVE MinimaxScored(_, _, _, _, _, _, _, _, _, _)

\* lines 422-431: the child has returned r
MinimaxScored(r, b, depth, alpha, beta, late, moves, i, best_score, best_move) ==
    LET score == -r.score
        bs == IF score > best_score THEN score ELSE best_score
        bm == IF score > best_score THEN MoveOf(moves[i]) ELSE best_move
        a == Max(alpha, score)
    IN  IF a >= beta THEN GmLoop(r.tt, r.nodes, bs, bm, a, 1)
        ELSE MinimaxMoves(r.tt, r.nodes, b, depth, a, beta, late, moves, i + 1, bs, bm)

\* lines 417-420: the loop over the ordered moves
MinimaxMoves(tt, nodes, b, depth, alpha, beta, late, moves, i, best_score, best_move) ==
    IF i > Len(moves) THEN GmLoop(tt, nodes, best_score, best_move, alpha, 2)
    ELSE MinimaxScored(
             _minimax_alpha_beta(tt, nodes, Push(b, moves[i]), depth - 1, -beta, -alpha, late),
             b, depth, alpha, beta, late, moves, i, best_score, best_move)

\* lines 433-440: the flag, the store, the return
MinimaxStore(l, key, depth, max_table_size) ==
    LET flag == IF l.best_score > l.alpha THEN 0 ELSE l.flag
        entry == [depth |-> depth, score |-> l.best_score, flag |-> flag,
                  best_move |-> l.best_move]
    IN  GmRet(IF Cardinality(DOMAIN l.tt) < max_table_size
              THEN Put(l.tt, key, entry) ELSE l.tt,
              l.nodes, l.best_score)

\* lines 402-415: the terminal cases and the move loop, after the probe p
MinimaxSearch(p, tt, nodes, b, depth, late) ==
    IF p.hit THEN GmRet(tt, nodes, p.score)
    ELSE IF depth = 0 \/ IsGameOver(b) THEN GmRet(tt, nodes, _evaluate_position(b))
    ELSE MinimaxStore(
             MinimaxMoves(tt, nodes, b, depth, p.alpha, p.beta, late,
                          _order_moves(tt, b, LegalMoves(b)), 1, -GmInf, None),
             ZobristHash(b), depth, MaxTableSize)

\* _minimax_alpha_beta; late: the clock has passed max_time
_minimax_alpha_beta(tt, nodes, b, depth, alpha, beta, late) ==
    IF (nodes + 1) % GmPollEvery = 0 /\ late THEN GmRet(tt, nodes + 1, 0)
    ELSE MinimaxSearch(GmProbe(tt, ZobristHash(b), depth, alpha, beta),
                       tt, nodes + 1, b, depth, late)

\* ------------------------------------------------------------------------
\* GrandmasterEngine.search as a step machine. env.clock is the wall clock
\* against the allocation max_time: 0 up to 0.8 * max_time, 1 up to
\* max_time, 2 beyond it. max_time is at least 0.1 s, so the clock stands
\* at 0 when start_time is taken.
\* ------------------------------------------------------------------------
GmRootMoveLists(root) ==
    LET lm == Game[root].moves
    IN  {NoList, List(<< >>)}
        \cup {List(<<MoveOf(lm[i])>>) : i \in 1..Len(lm)}
        \cup {List([k \in 1..(Len(lm) - 1) |-> MoveOf(lm[IF k < i THEN k ELSE k + 1])]) :
                  i \in 1..Len(lm)}

GmSearchInputs ==
    UNION {{[root |-> r, root_moves |-> rm, again |-> FALSE] : rm \in GmRootMoveLists(r)} :
               r \in GmRoots}

GmNoLoc == [best_move |-> None, best_score |-> 0, depth |-> 0, moves |-> << >>, idx |-> 0,
            alpha |-> 0, move |-> None]

GmResult(kind, move, depth, nodes, score) ==
    [kind |-> kind, move |-> move, depth |-> depth, nodes |-> nodes, pv |-> << >>,
     score |-> score, exc |-> "none"]

GmInit ==
    /\ self \in {GrandmasterEngine(bp, sp) : bp \in {"None", "./engines/book.bin"},
                                            sp \in {"None", "./engines/syzygy"}}
    /\ board = NoBoard
    /\ pc = "idle"
    /\ frames = << >>
    /\ ret = NoRet
    /\ loc = GmNoLoc
    /\ inp = [root |-> 0, root_moves |-> NoList, again |-> FALSE]
    /\ result = NoResult
    /\ env = [clock |-> 0]
    /\ probes = << >>
    /\ completed = NoCompleted
    /\ prior = NoPrior

\* what the book and the tablebases may be asked on this board
GmBookAnswers(me, b) ==
    IF me.use_opening_book /\ me.opening_book_path /= "None" /\ StackLen(b) < GmBookPlies
    THEN Answers(b) ELSE {None}
GmTbAnswers(me, root, b) ==
    IF me.use_endgame_tb /\ me.syzygy_path /= "None" /\ GmRootInfo[root].pieces <= GmTbPieces
    THEN Answers(b) ELSE {None}

\* lines 254-305: search up to the first pass of the deepening loop
GmEnter(i) ==
    /\ inp' = i
    /\ board' = GmBoardAt(i.root)
    /\ self' = [self EXCEPT !.nodes_searched = 0]
    /\ env' = [clock |-> 0]
    /\ \E book_move \in GmBookAnswers(self, GmBoardAt(i.root)),
          tb_move \in GmTbAnswers(self, i.root, GmBoardAt(i.root)) :
         LET possible_moves == IF i.root_moves.list THEN i.root_moves.moves
                               ELSE [k \in 1..Len(Game[i.root].moves) |->
                                        MoveOf(Game[i.root].moves[k])]
         IN  IF Truthy(book_move)
             THEN /\ result' = GmResult("book", book_move, 0, 0, 0)
                  /\ pc' = "done"
                  /\ loc' = GmNoLoc
             ELSE IF Truthy(tb_move)
             THEN /\ result' = GmResult("tablebase", tb_move, 0, 0, 0)
                  /\ pc' = "done"
                  /\ loc' = GmNoLoc
             ELSE IF Len(possible_moves) = 0
             THEN /\ result' = GmResult("nomove", None, 0, 0, 0)
                  /\ pc' = "done"
                  /\ loc' = GmNoLoc
             ELSE IF Len(possible_moves) = 1
             THEN /\ result' = GmResult("single", possible_moves[1], 0, 0, 0)
                  /\ pc' = "done"
                  /\ loc' = GmNoLoc
             ELSE /\ result' = NoResult
                  /\ pc' = "gm_depth"
                  /\ loc' = [GmNoLoc EXCEPT !.best_move = possible_moves[1],
                                            !.best_score = -GmInf, !.depth = 1]
    /\ UNCHANGED <<frames, ret, probes, completed, prior>>

\* the host calls GrandmasterEngine.search
GmCallSearch ==
    /\ pc = "idle"
    /\ \E i \in GmSearchInputs : GmEnter(i)

\* the host calls search again on the same engine instance
GmCallSearchAgain ==
    /\ pc = "done"
    /\ ~inp.again
    /\ \E i \in GmSearchInputs : GmEnter([i EXCEPT !.again = TRUE])

\* the wall clock passes 0.8 * max_time, then max_time
GmTick ==
    /\ pc \in {"gm_depth", "gm_root"}
    /\ env.clock < 2
    /\ env' = [clock |-> env.clock + 1]
    /\ UNCHANGED <<self, board, pc, frames, ret, loc, inp, result, probes, completed, prior>>

\* lines 308-313 and 345-350: the head of the deepening loop and the entry
\* of _iterative_deepening_search
GmIterate ==
    /\ pc = "gm_depth"
    /\ IF loc.depth > GmMaxDepth \/ env.clock >= 1
       THEN /\ pc' = "gm_finish"
            /\ loc' = loc
       ELSE /\ pc' = "gm_root"
            /\ loc' = [loc EXCEPT !.moves = _order_moves(self.transposition_table, board,
                                                         LegalMoves(board)),
                                  !.alpha = -GmInf, !.move = None, !.idx = 1]
    /\ UNCHANGED <<self, board, frames, ret, inp, result, env, probes, completed, prior>>

\* lines 352-365: one pass of the root loop; lines 315-324 when it ends
GmRootMove ==
    /\ pc = "gm_root"
    /\ IF loc.idx > Len(loc.moves) \/ env.clock = 2
       THEN /\ self' = self
            /\ loc' = [loc EXCEPT
                         !.best_move = IF Truthy(loc.move) THEN loc.move ELSE @,
                         !.best_score = IF Truthy(loc.move) THEN loc.alpha ELSE @,
                         !.depth = IF Abs(loc.alpha) > GmMateBand THEN @ ELSE @ + 1]
            /\ pc' = IF Abs(loc.alpha) > GmMateBand THEN "gm_finish" ELSE "gm_depth"
       ELSE \E r \in {_minimax_alpha_beta(self.transposition_table, self.nodes_searched,
                                          Push(board, loc.moves[loc.idx]), loc.depth - 1,
                                          -GmInf, -loc.alpha, env.clock = 2)} :
              /\ self' = [self EXCEPT !.transposition_table = r.tt,
                                      !.nodes_searched = r.nodes]
              /\ loc' = [loc EXCEPT
                           !.alpha = IF -r.score > loc.alpha THEN -r.score ELSE @,
                           !.move = IF -r.score > loc.alpha
                                    THEN MoveOf(loc.moves[loc.idx]) ELSE @,
                           !.idx = @ + 1]
              /\ pc' = "gm_root"
    /\ UNCHANGED <<board, frames, ret, inp, result, env, probes, completed, prior>>

\* lines 326-340: the PlayResult
GmFinish ==
    /\ pc = "gm_finish"
    /\ result' = GmResult("search", loc.best_move, loc.depth - 1, self.nodes_searched,
                          loc.best_score)
    /\ pc' = "done"
    /\ UNCHANGED <<self, board, frames, ret, loc, inp, env, probes, completed, prior>>

NextGm ==
    \/ GmCallSearch
    \/ GmCallSearchAgain
    \/ GmTick
    \/ GmIterate
    \/ GmRootMove
    \/ GmFinish

SpecGm == GmInit /\ [][NextGm]_vars

GmReturned == pc = "done"

\* C21: when root_moves is a list, the move GrandmasterEngine.search returns
\* is a member of that list, for lists of one move and of several.
C21_RootMoveRestriction ==
    (GmReturned /\ inp.root_moves.list /\ Len(inp.root_moves.moves) >= 1)
        => \E k \in 1..Len(inp.root_moves.moves) : inp.root_moves.moves[k] = result.move

\* the moves of a position that deliver checkmate
GmMatingMoves(node) ==
    {MoveOf(Game[node].moves[k]) : k \in {j \in 1..Len(Game[node].moves) :
        LET d == Game[Game[node].moves[j].dst] IN d.check /\ Len(d.moves) = 0}}

GmSearched == GmReturned /\ result.kind \notin {"book", "tablebase"}

StopNodesCap == 45

\* notify("configure", {"Nodes": n}), or no configuration
ConfigureNodes ==
    /\ pc = "idle"
    /\ \E n \in 1..StopNodesCap :
         self' = _configure(self, Options(Unset, n, Unset, Unset, Unset, Unset))
    /\ pc' = "ready"
    /\ UNCHANGED <<board, frames, ret, loc, inp, result, env, probes, completed, prior>>

SearchStopRoot ==
    /\ pc \in {"idle", "ready"}
    /\ inp' = [root |-> StopRoot, time_limit |-> NoClock, root_moves |-> NoList]
    /\ board' = BoardAt(StopRoot)
    /\ pc' = "csv"
    /\ UNCHANGED <<self, frames, ret, loc, result, env, probes, completed, prior>>

NextStop ==
    \/ ConfigureNodes
    \/ SearchStopRoot
    \/ ProbeCsv
    \/ ProbeBook
    \/ ProbeTb
    \/ SearchBegin
    \/ SearchDepthOne
    \/ IterBegin
    \/ IterAspiration
    \/ IterResearch
    \/ IterEnd
    \/ SearchFinish
    \/ PvsEntry
    \/ PvsNullMove
    \/ PvsIID
    \/ PvsMoveGen
    \/ PvsMakeMove
    \/ PvsResume
    \/ PvsUnmake
    \/ PvsStore
    \/ QEntry
    \/ QStore

SpecStop == Init /\ [][NextStop]_vars

\* C23: once the stop flag is set during a core search, every _time_up call
\* returns true, the flag stays set until the next core search resets it at
\* its start, the node counter does not increase, and no pending _pvs or
\* _quiescence frame starts another move (no move is pushed on the board).
C23_StickyStop ==
    [][self.stop =>
          /\ TimeUp.ret
          /\ (self'.stop \/ (pc = "core" /\ pc' = "wait_d1"))
          /\ (self'.stop => self'.nodes = self.nodes)
          /\ Len(board'.stack) <= Len(board.stack)]_vars

\* C24: a node whose move loop was broken by the stop flag, or whose child
\* returned the poison value, stores nothing: while the stop flag is set the
\* transposition table is not written.
C24_NoStoreWhenStopped ==
    [][(self.stop /\ self'.stop) => self'.tt = self.tt]_vars

\* C25: every move the _pvs move loop scores is searched: a move pushed by
\* the loop gets a recursive _pvs call before its score is compared with
\* best_score, alpha and beta.
C25_ScoredMoveSearched ==
    [][(InPvs("loop") /\ Len(board'.stack) > Len(board.stack))
          => Len(frames') = Len(frames) + 1]_vars

\* C26: a beta cutoff in _pvs caused by a capture leaves the history, killer
\* and counter-move tables unchanged.
C26_QuietOnlyUpdates ==
    [][(InPvs("unmake") /\ Top.moves[Top.i].cap)
          => /\ self'.history_heuristic = self.history_heuristic
             /\ self'.killer_moves = self.killer_moves
             /\ self'.counter_moves = self.counter_moves]_vars

\* what the claim gives for _see: victim - attacker when the opponent of the
\* capturing side attacks the destination after the capture, the victim's
\* value otherwise, 0 for a non-capture
SeeByOpponent(m) ==
    IF ~m.cap THEN 0
    ELSE _piece_value(m.victim) - (IF m.recap THEN _piece_value(m.attacker) ELSE 0)

\* C27: for every legal move of the position on the board, _see returns the
\* victim's value less the attacker's exactly when the side to move after
\* the capture attacks the destination square, the victim's value otherwise
\* and 0 for a non-capture, and leaves the board unchanged.
C27_SeeAttackerSide ==
    board.node \in NodeIds =>
        \A k \in 1..Len(LegalMoves(board)) :
            /\ _see(board, LegalMoves(board)[k]).gain = SeeByOpponent(LegalMoves(board)[k])
            /\ _see(board, LegalMoves(board)[k]).board = board

AgeCap == 3
AgeInputs == {[root |-> r, time_limit |-> NoClock, root_moves |-> NoList] : r \in {1, 30}}

\* the first search call of the game
SearchFirstMove ==
    /\ pc = "idle"
    /\ \E i \in AgeInputs :
         /\ inp' = i
         /\ board' = BoardAt(i.root)
    /\ pc' = "csv"
    /\ UNCHANGED <<self, frames, ret, loc, result, env, probes, completed, prior>>

\* a later search call of the game, on the engine the call before left
SearchNextMove ==
    /\ pc = "done"
    /\ self.age < AgeCap
    /\ \E i \in AgeInputs :
         /\ inp' = i
         /\ board' = BoardAt(i.root)
    /\ probes' = << >>
    /\ pc' = "csv"
    /\ UNCHANGED <<self, frames, ret, loc, result, env, completed, prior>>

NextGame ==
    \/ SearchFirstMove
    \/ SearchNextMove
    \/ ProbeCsv
    \/ ProbeBook
    \/ ProbeTb
    \/ SearchBegin
    \/ SearchDepthOne
    \/ IterBegin
    \/ IterAspiration
    \/ IterResearch
    \/ IterEnd
    \/ SearchFinish
    \/ PvsEntry
    \/ PvsNullMove
    \/ PvsIID
    \/ PvsMoveGen
    \/ PvsMakeMove
    \/ PvsResume
    \/ PvsUnmake
    \/ PvsStore
    \/ QEntry
    \/ QMakeMove
    \/ QUnmake
    \/ QStore

SpecGame == Init /\ [][NextGame]_vars

\* the step is a call of _store_tt on a key the table holds: line 376 of
\* _pvs, lines 419 and 429 of _quiescence
StoresOver ==
    /\ frames /= << >>
    /\ Top.key \in DOMAIN self.tt
    /\ \/ InPvs("store")
       \/ InQ("store")
       \/ InQ("wait") /\ -ret.score >= Top.beta

\* C29: self.age grows by exactly 1 in the step that enters the core search
\* and changes in no other step; every entry of the transposition table has
\* age <= self.age; and every _store_tt call of a search on a key the table
\* holds leaves the new entry under that key, whatever the two depths are.
C29_AgeMonotone ==
    [][/\ self'.age = IF pc = "core" /\ pc' = "wait_d1" THEN self.age + 1 ELSE self.age
       /\ \A k \in DOMAIN self.tt : self.tt[k].age <= self.age
       /\ StoresOver =>
            /\ self'.tt[Top.key].depth = (IF InPvs("store") THEN Top.depth ELSE 0)
            /\ self'.tt[Top.key].age = self.age]_vars

\* a later search is about to store a shallower result over the deeper
\* entry an earlier search left for the position
C29_Witness ==
    /\ frames /= << >>
    /\ InPvs("store")
    /\ Top.key \in DOMAIN self.tt
    /\ self.tt[Top.key].depth > Top.depth
    /\ self.tt[Top.key].age < self.age

\* ------------------------------------------------------------------------
\* One search of the position PvRoot under a node limit, the host allowing
\* Nf3 and Na3 only (root_moves). The limit keeps the search within six
\* iterations, where no line repeats a position three times; the board
\* library offers _transposition_key.
\* ------------------------------------------------------------------------
PvNodesCap == 52
PvRootMoves == List(<<MoveOf(Game[PvRoot].moves[1]), MoveOf(Game[PvRoot].moves[3])>>)

InitPv == Init /\ env.hash_mode = "transposition_key"

\* notify("configure") with option Nodes
ConfigurePvNodes ==
    /\ pc = "idle"
    /\ \E n \in 1..PvNodesCap :
         self' = _configure(self, Options(Unset, n, Unset, Unset, Unset, Unset))
    /\ pc' = "ready"
    /\ UNCHANGED <<board, frames, ret, loc, inp, result, env, probes, completed, prior>>

\* the host calls search on PvRoot with root_moves = [Nf3, Na3]
SearchPvRoot ==
    /\ pc = "ready"
    /\ inp' = [root |-> PvRoot, time_limit |-> NoClock, root_moves |-> PvRootMoves]
    /\ board' = BoardAt(PvRoot)
    /\ pc' = "csv"
    /\ UNCHANGED <<self, frames, ret, loc, result, env, probes, completed, prior>>

NextPv ==
    \/ ConfigurePvNodes
    \/ SearchPvRoot
    \/ ProbeCsv
    \/ ProbeBook
    \/ ProbeTb
    \/ SearchBegin
    \/ SearchDepthOne
    \/ IterBegin
    \/ IterAspiration
    \/ IterEnd
    \/ SearchFinish
    \/ PvsEntry
    \/ PvsNullMove
    \/ PvsIID
    \/ PvsMoveGen
    \/ PvsMakeMove
    \/ PvsResume
    \/ PvsUnmake
    \/ PvsStore
    \/ QEntry
    \/ QStore

SpecPv == InitPv /\ [][NextPv]_vars

\* C30: when the core search returns a non-empty principal variation, its
\* first move is the returned best move.
C30_PvStartsWithMove ==
    (Returned /\ result.pv /= << >>) => result.pv[1] = result.move

====
